---- MODULE Spec2Model ----
(***************************************************************************)
(* Messenger of milo-core (src/lib/classes.js): subscriber tables, the     *)
(* notifications to an attached MessageSource, inline and deferred         *)
(* dispatch with re-entrant user callbacks.                                *)
(*                                                                         *)
(* A JavaScript value is modelled as follows.                              *)
(*   message      [re |-> BOOLEAN, s |-> STRING]: a string, or a RegExp    *)
(*                named by its source text (String(/a/) = "/a/")           *)
(*   messages     the argument of on/off: [re |-> TRUE, s |-> <<text>>]    *)
(*                for a RegExp, [re |-> FALSE, s |-> tokens] for a string, *)
(*                a token being a word or one separator match (Sep)        *)
(*   subscriber   an object of the heap `subscribers`, named by its index  *)
(*   hash         a sequence of [key, list] in key insertion order, list a *)
(*                non-empty sequence of heap indexes; an absent key is     *)
(*                absent from the sequence                                 *)
(* The optional `callback` argument of postMessage is handed through to    *)
(* the subscribers untouched and is left out.                              *)
(*                                                                         *)
(* Connector of milo-core (src/lib/model/connector.js) between the stores  *)
(* of src/lib/model/index.js.                                              *)
(*   path         a sequence of tokens: an access path '.info.name' is     *)
(*                <<"info", "name">>, the root path '' is <<>>, a star of  *)
(*                a pattern is the token "*"                               *)
(*   value        the set of the leaves <<relative path, scalar>> of a     *)
(*                tree: {} is undefined, {<<<<>>, v>>} the scalar v        *)
(*   mode         the sequence of the characters of the mode string        *)
(***************************************************************************)
EXTENDS Integers, Sequences, FiniteSets, TLC

VARIABLES
    messageSource,              \* whether this._messageSource is set
    messageSubscribers,         \* this._messageSubscribers
    patternMessageSubscribers,  \* this._patternMessageSubscribers
    subscribers,                \* heap of subscriber objects (limit: the dispatchTimes
                                \* the object was registered with)
    timers,                     \* callbacks handed to _setTimeout, in order
    stack,                      \* call stack: dispatches and running callbacks
    posts,                      \* history: the postMessage calls made, each with the
                                \* exact list and the matching pattern lists it
                                \* found and the identities whose registrations
                                \* changed while it ran
    calls,                      \* history: the subscriber invocations
    notified,                   \* history: the calls made on the MessageSource
    threw,                      \* a TypeError escaped from the messenger
    ret,                        \* the last API call and what it returned
    ds,                         \* the stores: _data of each Model
    datachanges,                \* per store, the subscribers of 'datachanges'
    connectors,                 \* the Connector objects constructed
    deferred,                   \* functions handed to _.defer, in order
    connectorMessages,          \* history: messages the connectors posted
    changedata,                 \* history: the 'changedata' writes made
    emitted,                    \* history: the 'datachanges' batches posted
    validated,                  \* history: the 'validated' messages posted on stores
    error,                      \* what the last call threw, "" if nothing
    watch                       \* history: the last mutation and the deferred
                                \* functions run since

messengerVars == <<messageSource, messageSubscribers, patternMessageSubscribers,
                   subscribers, timers, stack, posts, calls, notified, threw, ret>>

connectorVars == <<ds, datachanges, connectors, deferred, connectorMessages, changedata,
                   emitted, validated, error, watch>>

vars == <<messageSource, messageSubscribers, patternMessageSubscribers, subscribers,
          timers, stack, posts, calls, notified, threw, ret,
          ds, datachanges, connectors, deferred, connectorMessages, changedata,
          emitted, validated, error, watch>>

\* ---------------------------------------------------------------- bounds
MaxSubs == 3
MaxDispatchSubs == 2
MaxPosts == 2
MaxDepth == 2

\* ---------------------------------------------------------------- values
Sep == " "
hostObject == "host"
NoSubscriber == [kind |-> "undefined"]
NoOptions == [sync |-> "undefined", dispatchTimes |-> 0]

Str(s) == [re |-> FALSE, s |-> s]
Re(s) == [re |-> TRUE, s |-> s]

\* A property key is the string form of the message.
ToKey(message) == message.s

\* RegExp.prototype.test for the patterns of the model.
PatternTest(pattern, s) ==
    CASE pattern = "/a/" -> s \in {"a", "/a/"}
      [] pattern = "/./" -> s # ""
      [] OTHER -> FALSE

\* String.prototype.split(messagesSplitRegExp) on a token sequence: the
\* pieces between separator matches; an edge separator yields "".
RECURSIVE splitFrom(_, _)
splitFrom(toks, piece) ==
    IF toks = <<>> THEN <<piece>>
    ELSE IF Head(toks) = Sep THEN <<piece>> \o splitFrom(Tail(toks), "")
    ELSE splitFrom(Tail(toks), Head(toks))

split(toks) == splitFrom(toks, "")

\* ---------------------------------------------------------------- hashes
HasKey(hash, key) == \E i \in DOMAIN hash : hash[i].key = key

KeyIndex(hash, key) == CHOOSE i \in DOMAIN hash : hash[i].key = key

Get(hash, key) == IF HasKey(hash, key) THEN hash[KeyIndex(hash, key)].list ELSE <<>>

Put(hash, key, list) ==
    IF HasKey(hash, key) THEN [hash EXCEPT ![KeyIndex(hash, key)].list = list]
    ELSE Append(hash, [key |-> key, list |-> list])

Delete(hash, key) == SelectSeq(hash, LAMBDA e : e.key # key)

Keys(hash) == [i \in DOMAIN hash |-> hash[i].key]

\* Array.prototype.splice(index, 1)
Splice(list, index) == [i \in 1..(Len(list) - 1) |-> IF i < index THEN list[i] ELSE list[i + 1]]

\* The record of all state variables, threaded through the operators below.
State ==
    [messageSource |-> messageSource,
     messageSubscribers |-> messageSubscribers,
     patternMessageSubscribers |-> patternMessageSubscribers,
     subscribers |-> subscribers,
     timers |-> timers,
     stack |-> stack,
     posts |-> posts,
     calls |-> calls,
     notified |-> notified,
     threw |-> threw]

_chooseSubscribersHash(message) ==
    IF message.re THEN "patternMessageSubscribers" ELSE "messageSubscribers"

\* Variants of _indexOfSubscriber: one that finds nothing, one that compares
\* the callbacks and not the contexts.
indexOfNothing(st, list, subscriber) == -1

indexOfCallback(st, list, subscriber) ==
    LET same == {i \in DOMAIN list :
                    st.subscribers[list[i]].subscriber = subscriber.subscriber}
    IN IF same = {} THEN -1 ELSE CHOOSE i \in same : \A j \in same : i <= j

\* Index (from 1) of the first subscriber of `list` with the callback and the
\* context of `subscriber`, -1 when there is none.
_indexOfSubscriber(st, list, subscriber) ==
    LET same == {i \in DOMAIN list :
                    /\ st.subscribers[list[i]].subscriber = subscriber.subscriber
                    /\ st.subscribers[list[i]].context = subscriber.context}
    IN IF same = {} THEN -1 ELSE CHOOSE i \in same : \A j \in same : i <= j

_registerSubscriber(st, hashName, message, sid) ==
    LET key == ToKey(message)
        noSubscribers == Get(st[hashName], key) = <<>>
        st1 == IF noSubscribers
               THEN [st EXCEPT ![hashName] = Put(@, key, <<>>),
                               !.notified = IF st.messageSource
                                            THEN Append(@, [op |-> "onSubscriberAdded",
                                                            message |-> message,
                                                            hash |-> hashName])
                                            ELSE @]
               ELSE st
        msgSubscribers == Get(st1[hashName], key)
        notYetRegistered ==
            noSubscribers \/ _indexOfSubscriber(st1, msgSubscribers, st.subscribers[sid]) = -1
    IN [st |-> IF notYetRegistered
               THEN [st1 EXCEPT ![hashName] = Put(@, key, Append(msgSubscribers, sid))]
               ELSE st1,
        ret |-> notYetRegistered]

\* Variant of _removeAllSubscribers without the delete.
removeNoSubscribers(st, hashName, message) == st

\* `delete subscribersHash[message]`. A dispatch under way that read this
\* array in postMessage keeps the array object, with the content it has now.
_removeAllSubscribers(st, hashName, message) ==
    LET key == ToKey(message)
        content == Get(st[hashName], key)
    IN [st EXCEPT
           ![hashName] = Delete(@, key),
           !.stack = [i \in DOMAIN @ |->
                        IF /\ @[i].kind = "dispatch"
                           /\ @[i].hash = hashName
                           /\ ToKey(@[i].message) = key
                           /\ @[i].msgSubscribers.ref = "array"
                        THEN [@[i] EXCEPT !.msgSubscribers =
                                    [ref |-> "detached", list |-> content]]
                        ELSE @[i]],
           !.notified = IF st.messageSource /\ ~message.re
                        THEN Append(@, [op |-> "onSubscriberRemoved", message |-> message,
                                        hash |-> hashName])
                        ELSE @]

_removeSubscriber(st, hashName, message, subscriber) ==
    LET key == ToKey(message)
        msgSubscribers == Get(st[hashName], key)
    IN IF msgSubscribers = <<>> THEN [st |-> st, ret |-> FALSE]
       ELSE IF subscriber.kind # "undefined"
       THEN LET subscr == IF subscriber.kind = "function"
                          THEN [subscriber |-> subscriber.subscriber, context |-> hostObject]
                          ELSE subscriber
                subscriberIndex == _indexOfSubscriber(st, msgSubscribers, subscr)
                rest == Splice(msgSubscribers, subscriberIndex)
            IN IF subscriberIndex = -1 THEN [st |-> st, ret |-> FALSE]
               ELSE IF rest = <<>>
               THEN [st |-> _removeAllSubscribers(
                                [st EXCEPT ![hashName] = Put(@, key, <<>>)], hashName, message),
                     ret |-> TRUE]
               ELSE [st |-> [st EXCEPT ![hashName] = Put(@, key, rest)], ret |-> TRUE]
       ELSE [st |-> _removeAllSubscribers(st, hashName, message), ret |-> TRUE]

\* String messages are split, each message is handed to the method; a RegExp
\* is handed over as it is.
Method(st, methodName, hashName, message, subscriber) ==
    IF methodName = "_registerSubscriber"
    THEN _registerSubscriber(st, hashName, message, subscriber)
    ELSE _removeSubscriber(st, hashName, message, subscriber)

RECURSIVE forEachMessage(_, _, _, _, _)
forEachMessage(st, methodName, list, subscriber, changed) ==
    IF list = <<>> THEN [st |-> st, ret |-> changed]
    ELSE LET r == Method(st, methodName, "messageSubscribers", Str(Head(list)), subscriber)
         IN forEachMessage(r.st, methodName, Tail(list), subscriber, changed \/ r.ret)

_eachMessage(st, methodName, messages, subscriber) ==
    IF messages.re
    THEN Method(st, methodName, _chooseSubscribersHash(messages), Re(messages.s[1]), subscriber)
    ELSE forEachMessage(st, methodName, split(messages.s), subscriber, FALSE)

\* The subscriber object gets its __messages and goes to the heap; an object
\* that no list took is garbage and is dropped again.
_Messenger_on(st, messages, subscriber) ==
    LET sid == Len(st.subscribers) + 1
        object == [subscriber EXCEPT !.messages = messages]
        r == _eachMessage([st EXCEPT !.subscribers = Append(@, object)],
                          "_registerSubscriber", messages, sid)
    IN IF r.ret THEN r ELSE [st |-> [r.st EXCEPT !.subscribers = st.subscribers], ret |-> FALSE]

\* _.extend(subscriber.options, options): the properties that `options` has.
Extend(into, options) ==
    [sync |-> IF options.sync # "undefined" THEN options.sync ELSE into.sync,
     dispatchTimes |-> IF options.dispatchTimes # 0 THEN options.dispatchTimes
                       ELSE into.dispatchTimes]

\* `subscriber` is a function, [kind |-> "function", subscriber |-> f], or an
\* object {subscriber, context, options}.
_Messenger_onWithOptions(st, messages, subscriber, options) ==
    LET given == IF subscriber.kind = "function"
                 THEN [subscriber |-> subscriber.subscriber, context |-> hostObject,
                       options |-> NoOptions]
                 ELSE [subscriber |-> subscriber.subscriber, context |-> subscriber.context,
                       options |-> subscriber.options]
        opts == Extend(given.options, options)
    IN _Messenger_on(st, messages,
                     [subscriber |-> given.subscriber, context |-> given.context,
                      sync |-> opts.sync, dispatchTimes |-> opts.dispatchTimes,
                      limit |-> opts.dispatchTimes, messages |-> <<>>])

Messenger_on(st, messages, subscriber) ==
    _Messenger_onWithOptions(st, messages, subscriber, NoOptions)

Messenger_once(st, messages, subscriber) ==
    _Messenger_onWithOptions(st, messages, subscriber, [sync |-> "undefined", dispatchTimes |-> 1])

Messenger_onceSync(st, messages, subscriber) ==
    _Messenger_onWithOptions(st, messages, subscriber, [sync |-> "true", dispatchTimes |-> 1])

Messenger_onSync(st, messages, subscriber) ==
    _Messenger_onWithOptions(st, messages, subscriber, [sync |-> "true", dispatchTimes |-> 0])

Messenger_onAsync(st, messages, subscriber) ==
    _Messenger_onWithOptions(st, messages, subscriber, [sync |-> "false", dispatchTimes |-> 0])

_Messenger_off(st, messages, subscriber) ==
    _eachMessage(st, "_removeSubscriber", messages, subscriber)

Messenger_off(st, messages, subscriber) == _Messenger_off(st, messages, subscriber)

\* _.eachKey hands the callback each property name, a string, also for the
\* keys of the pattern hash.
RECURSIVE _offAllSubscribers(_, _, _)
_offAllSubscribers(st, hashName, keys) ==
    IF keys = <<>> THEN st
    ELSE _offAllSubscribers(_removeAllSubscribers(st, hashName, Str(Head(keys))),
                            hashName, Tail(keys))

Messenger_offAll(st) ==
    LET st1 == _offAllSubscribers(st, "patternMessageSubscribers",
                                  Keys(st.patternMessageSubscribers))
    IN _offAllSubscribers(st1, "messageSubscribers", Keys(st1.messageSubscribers))

\* The lists of the patterns among `keys` that match `s`, appended in order.
RECURSIVE appendMatching(_, _, _)
appendMatching(hash, keys, s) ==
    IF keys = <<>> THEN <<>>
    ELSE (IF Get(hash, Head(keys)) # <<>> /\ PatternTest(Head(keys), s)
          THEN Get(hash, Head(keys)) ELSE <<>>)
         \o appendMatching(hash, Tail(keys), s)

\* Variant of getSubscribers that returns the array also when it is empty.
getSubscribersOrEmpty(st, message, includePatternSubscribers) ==
    LET own == Get(st[_chooseSubscribersHash(message)], ToKey(message))
    IN [undefined |-> FALSE,
        list |-> IF includePatternSubscribers # "false" /\ ~message.re
                 THEN own \o appendMatching(st.patternMessageSubscribers,
                                            Keys(st.patternMessageSubscribers), message.s)
                 ELSE own]

\* includePatternSubscribers is "undefined", "true" or "false".
getSubscribers(st, message, includePatternSubscribers) ==
    LET subscribersHash == st[_chooseSubscribersHash(message)]
        own == Get(subscribersHash, ToKey(message))
        msgSubscribers ==
            IF includePatternSubscribers # "false" /\ ~message.re
            THEN own \o appendMatching(st.patternMessageSubscribers,
                                       Keys(st.patternMessageSubscribers), message.s)
            ELSE own
    IN IF Len(msgSubscribers) # 0
       THEN [undefined |-> FALSE, list |-> msgSubscribers]
       ELSE [undefined |-> TRUE, list |-> <<>>]

\* ---------------------------------------------------------------- dispatch
\* A stack frame is a postMessage call under way (kind "dispatch") or a timer
\* callback (kind "timer"). `cur` is the subscriber whose callback runs in
\* this frame, 0 when none does. A dispatch frame holds the local variables
\* of postMessage: msgSubscribers, the array read from the hash ("undefined",
\* the hash's own array, or an array the hash has dropped); `work`, what is
\* left of the clone that _callSubscribers walks; `keys`, what is left of the
\* pattern keys that _.eachKey walks.
Top(st) == st.stack[Len(st.stack)]

Depth(st) == Cardinality({i \in DOMAIN st.stack : st.stack[i].kind = "dispatch"})

Pop(st) == [st EXCEPT !.stack = SubSeq(@, 1, Len(@) - 1)]

\* The content of a dispatch frame's msgSubscribers array.
ArrayOf(st, fr) ==
    IF fr.msgSubscribers.ref = "array" THEN Get(st[fr.hash], ToKey(fr.message))
    ELSE fr.msgSubscribers.list

\* An uncaught TypeError unwinds the whole stack.
Throw(st) ==
    [st EXCEPT !.stack = <<>>,
               !.threw = TRUE,
               !.posts = [i \in DOMAIN @ |->
                            IF @[i].status = "running" THEN [@[i] EXCEPT !.status = "threw"]
                            ELSE @[i]]]

\* Variants of synchro: one that lets the dispatching call decide alone, one
\* that lets the subscriber's flag decide alone.
synchroOfDispatch(_synchronous, syncSubscriber) ==
    _synchronous \/ syncSubscriber = "true"

synchroUnlessFalse(_synchronous, syncSubscriber) == syncSubscriber # "false"

\* Whether the subscriber is called inline.
synchro(_synchronous, syncSubscriber) ==
    (_synchronous /\ syncSubscriber # "false") \/ syncSubscriber = "true"

\* The subscriber's function is called, now or from a timer.
_callSubscriber(st, sid, fr) ==
    LET subscriber == st.subscribers[sid]
        syncSubscriber == subscriber.sync
        dispatchTimes == subscriber.dispatchTimes
        st1 == IF dispatchTimes # 0
               THEN IF dispatchTimes <= 1
                    THEN Messenger_off(st, subscriber.messages,
                                       [kind |-> "object",
                                        subscriber |-> subscriber.subscriber,
                                        context |-> subscriber.context]).st
                    ELSE [st EXCEPT !.subscribers[sid].dispatchTimes = @ - 1]
               ELSE st
        call == [post |-> fr.post, sid |-> sid,
                 subscriber |-> subscriber.subscriber, context |-> subscriber.context,
                 message |-> fr.message, data |-> fr.data, via |-> fr.via,
                 inline |-> FALSE]
    IN IF synchro(fr.synchronous, syncSubscriber)
       THEN [st1 EXCEPT !.stack[Len(st1.stack)].cur = sid,
                        !.calls = Append(@, [call EXCEPT !.inline = TRUE])]
       ELSE [st1 EXCEPT !.timers = Append(@, call)]

\* The clone of the list that forEach walks; `via` names the list.
_callSubscribers(st, msgSubscribers, hashName, key) ==
    [st EXCEPT !.stack[Len(st.stack)].work = msgSubscribers,
               !.stack[Len(st.stack)].via = [hash |-> hashName, key |-> key]]

\* The _.eachKey callback for one key of the pattern hash. The keys were
\* listed when the walk began; the value is read now, and it is undefined
\* when the key is gone.
_callPatternSubscribers(st, key) ==
    LET fr == Top(st)
        patternSubscribers == Get(st.patternMessageSubscribers, key)
        calledMsgSubscribers == ArrayOf(st, fr)
        filtered == IF fr.msgSubscribers.ref # "undefined"
                    THEN SelectSeq(patternSubscribers,
                            LAMBDA sid : _indexOfSubscriber(st, calledMsgSubscribers,
                                                            st.subscribers[sid]) = -1)
                    ELSE patternSubscribers
    IN IF patternSubscribers = <<>> THEN Throw(st)
       ELSE IF PatternTest(key, fr.message.s)
       THEN _callSubscribers(st, filtered, "patternMessageSubscribers", key)
       ELSE st

\* postMessage from where it stands to the next inline callback, or to its
\* return.
RECURSIVE Run(_)
Run(st) ==
    IF st.stack = <<>> THEN st
    ELSE LET n == Len(st.stack)
             fr == st.stack[n]
         IN IF fr.kind # "dispatch" \/ fr.cur # 0 THEN st
            ELSE IF fr.work # <<>>
            THEN Run(_callSubscriber([st EXCEPT !.stack[n].work = Tail(@)], Head(fr.work), fr))
            ELSE IF fr.phase = "message" /\ ~fr.message.re
            THEN Run([st EXCEPT !.stack[n].phase = "pattern",
                                !.stack[n].keys = Keys(st.patternMessageSubscribers)])
            ELSE IF fr.phase = "pattern" /\ fr.keys # <<>>
            THEN Run(_callPatternSubscribers([st EXCEPT !.stack[n].keys = Tail(@)],
                                             Head(fr.keys)))
            ELSE [Pop(st) EXCEPT !.posts[fr.post].status = "returned"]

postMessage(st, message, data, _synchronous) ==
    LET hashName == _chooseSubscribersHash(message)
        msgSubscribers == Get(st[hashName], ToKey(message))
        post == Len(st.posts) + 1
        frame == [kind |-> "dispatch", post |-> post, message |-> message, data |-> data,
                  synchronous |-> _synchronous, hash |-> hashName,
                  msgSubscribers |-> [ref |-> IF msgSubscribers = <<>> THEN "undefined"
                                              ELSE "array",
                                      list |-> <<>>],
                  phase |-> "message", work |-> <<>>, keys |-> <<>>,
                  via |-> [hash |-> hashName, key |-> ToKey(message)], cur |-> 0]
        st1 == [st EXCEPT !.stack = Append(@, frame),
                          !.posts = Append(@, [message |-> message, data |-> data,
                                               synchronous |-> _synchronous,
                                               status |-> "running",
                                               list |-> msgSubscribers,
                                               patterns |->
                                                   IF message.re THEN <<>>
                                                   ELSE appendMatching(
                                                            st.patternMessageSubscribers,
                                                            Keys(st.patternMessageSubscribers),
                                                            message.s),
                                               touched |-> {}])]
    IN Run(_callSubscribers(st1, msgSubscribers, hashName, ToKey(message)))

postMessageSync(st, message, data) == postMessage(st, message, data, TRUE)

runTimerOfRegistered(st) ==
    LET t == Head(st.timers)
        in(hash) == \E i \in DOMAIN hash : \E j \in DOMAIN hash[i].list :
                        hash[i].list[j] = t.sid
    IN IF ~in(st.messageSubscribers) /\ ~in(st.patternMessageSubscribers)
       THEN [st EXCEPT !.timers = Tail(@)]
       ELSE [st EXCEPT !.timers = Tail(@),
                       !.calls = Append(@, [t EXCEPT !.inline =
                                     \E i \in DOMAIN st.stack : st.stack[i].post = t.post]),
                       !.stack = Append(@, [kind |-> "timer", post |-> t.post,
                                            message |-> t.message, data |-> t.data,
                                            synchronous |-> FALSE, hash |-> "",
                                            msgSubscribers |-> [ref |-> "undefined",
                                                                list |-> <<>>],
                                            phase |-> "", work |-> <<>>, keys |-> <<>>,
                                            via |-> t.via, cur |-> t.sid])]

\* A timer fires: its callback calls the subscriber.
runTimer(st) ==
    LET t == Head(st.timers)
    IN [st EXCEPT !.timers = Tail(@),
                  !.calls = Append(@, [t EXCEPT !.inline =
                                \E i \in DOMAIN st.stack : st.stack[i].post = t.post]),
                  !.stack = Append(@, [kind |-> "timer", post |-> t.post,
                                       message |-> t.message, data |-> t.data,
                                       synchronous |-> FALSE, hash |-> "",
                                       msgSubscribers |-> [ref |-> "undefined", list |-> <<>>],
                                       phase |-> "", work |-> <<>>, keys |-> <<>>,
                                       via |-> t.via, cur |-> t.sid])]

\* The running callback returns to what called it.
return(st) ==
    IF Top(st).kind = "timer" THEN Pop(st)
    ELSE Run([st EXCEPT !.stack[Len(st.stack)].cur = 0])

\* ---------------------------------------------------------------- inputs
Fn(f) == [kind |-> "function", subscriber |-> f]
Obj(f, context, options) ==
    [kind |-> "object", subscriber |-> f, context |-> context, options |-> options]

String(toks) == [re |-> FALSE, s |-> toks]
RegExp(text) == [re |-> TRUE, s |-> <<text>>]

\* ---------------------------------------------------------------- actions
\* Where the subscriber objects are registered: table, key, object.
Entries(st, hashName) ==
    UNION {{<<hashName, st[hashName][i].key, st[hashName][i].list[j]>> :
                j \in DOMAIN st[hashName][i].list} : i \in DOMAIN st[hashName]}

Registrations(st, identity) ==
    {r \in Entries(st, "messageSubscribers") \cup Entries(st, "patternMessageSubscribers") :
        <<st.subscribers[r[3]].subscriber, st.subscribers[r[3]].context>> = identity}

\* The identities whose registrations differ between two states.
Changed(before, after) ==
    {identity \in {<<after.subscribers[sid].subscriber, after.subscribers[sid].context>> :
                      sid \in DOMAIN after.subscribers} :
        Registrations(before, identity) # Registrations(after, identity)}

Commit(st) ==
    /\ messageSubscribers' = st.messageSubscribers
    /\ patternMessageSubscribers' = st.patternMessageSubscribers
    /\ subscribers' = st.subscribers
    /\ timers' = st.timers
    /\ stack' = st.stack
    /\ posts' = [p \in DOMAIN st.posts |->
                    IF p > Len(posts) \/ posts[p].status = "running"
                    THEN [st.posts[p] EXCEPT !.touched = @ \cup Changed(State, st)]
                    ELSE st.posts[p]]
    /\ calls' = st.calls
    /\ notified' = st.notified
    /\ threw' = st.threw
    /\ UNCHANGED messageSource
    /\ UNCHANGED connectorVars

\* What the last API call returned.
Returned(op, value) == [op |-> op, bool |-> value, undefined |-> FALSE, list |-> <<>>]

\* No store holds data, no connector was constructed.
Stores == {1, 2, 3}

NoWatch ==
    [op |-> "", store |-> 0, ahead |-> 0, run |-> 0, shallow |-> FALSE, sets |-> 0,
     calls |-> 0, mode |-> <<>>, emittedAt |-> 0, writtenAt |-> 0, origin |-> 0]

NoConnector ==
    /\ ds = [s \in Stores |-> {}]
    /\ datachanges = [s \in Stores |-> <<>>]
    /\ connectors = <<>>
    /\ deferred = <<>>
    /\ connectorMessages = <<>>
    /\ changedata = <<>>
    /\ emitted = <<>>
    /\ validated = <<>>
    /\ error = ""
    /\ watch = NoWatch

Init ==
    /\ messageSource \in BOOLEAN
    /\ messageSubscribers = <<>>
    /\ patternMessageSubscribers = <<>>
    /\ subscribers = <<>>
    /\ timers = <<>>
    /\ stack = <<>>
    /\ posts = <<>>
    /\ calls = <<>>
    /\ notified = <<>>
    /\ threw = FALSE
    /\ ret = Returned("none", FALSE)
    /\ NoConnector

Subscribe(r, op) ==
    /\ Len(subscribers) < MaxSubs
    /\ Commit(r.st)
    /\ ret' = Returned(op, r.ret)

On(messages, subscriber) == Subscribe(Messenger_on(State, messages, subscriber), "subscribe")

Once(messages, subscriber) == Subscribe(Messenger_once(State, messages, subscriber), "subscribe")

OnceSync(messages, subscriber) ==
    Subscribe(Messenger_onceSync(State, messages, subscriber), "subscribe")

OnSync(messages, subscriber) == Subscribe(Messenger_onSync(State, messages, subscriber), "subscribe")

OnAsync(messages, subscriber) ==
    Subscribe(Messenger_onAsync(State, messages, subscriber), "subscribe")

Off(messages, subscriber) ==
    LET r == Messenger_off(State, messages, subscriber)
    IN Commit(r.st) /\ ret' = Returned("off", r.ret)

OffAll == Commit(Messenger_offAll(State)) /\ ret' = Returned("offAll", FALSE)

PostMessage(message, data) ==
    /\ Len(posts) < MaxPosts
    /\ Depth(State) < MaxDepth
    /\ Commit(postMessage(State, message, data, FALSE))
    /\ UNCHANGED ret

PostMessageSync(message, data) ==
    /\ Len(posts) < MaxPosts
    /\ Depth(State) < MaxDepth
    /\ Commit(postMessageSync(State, message, data))
    /\ UNCHANGED ret

GetSubscribers(message, includePatternSubscribers) ==
    LET r == getSubscribers(State, message, includePatternSubscribers)
    IN /\ ret' = [op |-> "getSubscribers", bool |-> FALSE,
                  undefined |-> r.undefined, list |-> r.list]
       /\ UNCHANGED <<messageSource, messageSubscribers, patternMessageSubscribers,
                      subscribers, timers, stack, posts, calls, notified, threw>>
       /\ UNCHANGED connectorVars

Return == stack # <<>> /\ Commit(return(State)) /\ UNCHANGED ret

Tick == stack = <<>> /\ timers # <<>> /\ Commit(runTimer(State)) /\ UNCHANGED ret

\* ---------------------------------------------------------------- specifications
\* The subscriber tables without a MessageSource.
TableMessages == {String(<<"a">>), String(<<"a", Sep, "b">>), RegExp("/a/")}
TableSubscribers == {Fn("f"), Fn("g"), Obj("f", "other", NoOptions)}

InitTables == Init /\ messageSource = FALSE

NextTables ==
    \/ \E messages \in TableMessages, subscriber \in TableSubscribers :
          On(messages, subscriber)
    \/ \E messages \in TableMessages, subscriber \in TableSubscribers \cup {NoSubscriber} :
          Off(messages, subscriber)
    \/ OffAll

SpecTables == InitTables /\ [][NextTables]_vars

\* getSubscribers on the tables.
GetMessages == {String(<<"a">>), String(<<"b">>), RegExp("/a/"), RegExp("/./")}
GetSubscribersArgs == {Fn("f"), Fn("g")}

NextGet ==
    \/ \E messages \in GetMessages, subscriber \in GetSubscribersArgs :
          On(messages, subscriber)
    \/ \E messages \in GetMessages, subscriber \in GetSubscribersArgs \cup {NoSubscriber} :
          Off(messages, subscriber)
    \/ \E message \in {Str("a"), Str("b"), Re("/a/"), Re("/./")},
          include \in {"undefined", "true", "false"} :
          GetSubscribers(message, include)

SpecGet == InitTables /\ [][NextGet]_vars

\* The tables with a MessageSource attached.
SourceMessages == {String(<<"a">>), String(<<"a", Sep, "b">>), RegExp("/a/")}
SourceSubscribers == {Fn("f"), Fn("g")}

InitSource == Init /\ messageSource = TRUE

NextSource ==
    \/ \E messages \in SourceMessages, subscriber \in SourceSubscribers :
          On(messages, subscriber)
    \/ \E messages \in SourceMessages, subscriber \in SourceSubscribers \cup {NoSubscriber} :
          Off(messages, subscriber)
    \/ OffAll

SpecSource == InitSource /\ [][NextSource]_vars

\* Dispatch with user callbacks that subscribe, unsubscribe and dispatch.
DispatchMessages == {String(<<"a">>), RegExp("/a/"), RegExp("/./")}
DispatchSubscribers == {Fn("f"), Fn("g")}

NextDispatch ==
    \/ \E messages \in DispatchMessages, subscriber \in DispatchSubscribers :
          /\ Len(subscribers) < MaxDispatchSubs
          /\ \/ On(messages, subscriber)
             \/ Once(messages, subscriber)
             \/ OnSync(messages, subscriber)
    \/ \E messages \in DispatchMessages, subscriber \in DispatchSubscribers \cup {NoSubscriber} :
          Off(messages, subscriber)
    \/ PostMessage(Str("a"), "d1")
    \/ Return
    \/ Tick

Spec == InitTables /\ [][NextDispatch]_vars

\* Dispatch of plain and inline subscribers with two values of data.
DataArgs == {"d1", "d2"}

NextData ==
    \/ \E messages \in DispatchMessages, subscriber \in DispatchSubscribers :
          /\ Len(subscribers) < MaxDispatchSubs
          /\ \/ On(messages, subscriber)
             \/ OnSync(messages, subscriber)
    \/ \E messages \in DispatchMessages, subscriber \in DispatchSubscribers \cup {NoSubscriber} :
          Off(messages, subscriber)
    \/ \E data \in DataArgs : PostMessage(Str("a"), data)
    \/ Return
    \/ Tick

SpecData == InitTables /\ [][NextData]_vars

\* The delivery modes: every sync flag under postMessage and postMessageSync.
ModeMessages == {String(<<"a">>)}
ModeSubscribers == {Fn("f"), Fn("g"), Fn("h")}

NextModes ==
    \/ \E messages \in ModeMessages, subscriber \in ModeSubscribers :
          \/ On(messages, subscriber)
          \/ OnSync(messages, subscriber)
          \/ OnAsync(messages, subscriber)
    \/ OnAsync(RegExp("/a/"), Fn("h"))
    \/ PostMessage(Str("a"), "d1")
    \/ PostMessageSync(Str("a"), "d1")
    \/ Return
    \/ Tick

SpecModes == InitTables /\ [][NextModes]_vars

\* ---------------------------------------------------------------- claims
Range(seq) == {seq[i] : i \in DOMAIN seq}

\* The (callback, context) identity of a subscriber object.
Identity(sid) == <<subscribers[sid].subscriber, subscribers[sid].context>>

\* What an argument of on/off stands for: the (callback, context) pair.
IdentityOf(subscriber) ==
    IF subscriber.kind = "function" THEN <<subscriber.subscriber, hostObject>>
    ELSE <<subscriber.subscriber, subscriber.context>>

\* The messages an argument of on/off names, and the table they are in.
MessagesOf(messages) == IF messages.re THEN {messages.s[1]} ELSE Range(split(messages.s))

HashOf(messages) == IF messages.re THEN patternMessageSubscribers ELSE messageSubscribers

RegisteredFor(hash, key, identity) ==
    \E i \in DOMAIN Get(hash, key) : Identity(Get(hash, key)[i]) = identity

\* The invocations made and the ones waiting in timers.
Deliveries == calls \o timers

NoDuplicates(hash) ==
    \A e \in Range(hash) : \A i, j \in DOMAIN e.list :
        i # j => Identity(e.list[i]) # Identity(e.list[j])

AnySubscribe(messages, subscriber) ==
    \/ On(messages, subscriber)
    \/ Once(messages, subscriber)
    \/ OnSync(messages, subscriber)

\* C1: no subscriber list holds one (callback, context) identity twice; a
\* subscribe call for a pair that is registered for each of its messages
\* returns false and leaves the tables as they are; one dispatch invokes an
\* identity at most once through one list.
C1_NoDuplicateSubscribers ==
    /\ [](NoDuplicates(messageSubscribers) /\ NoDuplicates(patternMessageSubscribers))
    /\ [][\A messages \in DispatchMessages, subscriber \in DispatchSubscribers :
            (/\ ret'.op = "subscribe"
             /\ \A key \in MessagesOf(messages) :
                    RegisteredFor(HashOf(messages), key, IdentityOf(subscriber))
             /\ AnySubscribe(messages, subscriber))
            => (/\ ret'.op = "subscribe" /\ ret'.bool = FALSE
                /\ UNCHANGED <<messageSubscribers, patternMessageSubscribers>>)]_vars
    /\ [](\A i, j \in DOMAIN Deliveries :
            (/\ i # j
             /\ Deliveries[i].post = Deliveries[j].post
             /\ Deliveries[i].via = Deliveries[j].via)
            => <<Deliveries[i].subscriber, Deliveries[i].context>>
                 # <<Deliveries[j].subscriber, Deliveries[j].context>>)

\* A second subscribe of a registered pair returned false, and a dispatch
\* has invoked the subscriber since.
C1_Witness ==
    /\ ret.op = "subscribe" /\ ret.bool = FALSE
    /\ \E i \in DOMAIN calls : RegisteredFor(messageSubscribers, "a",
                                             <<calls[i].subscriber, calls[i].context>>)

\* A subscriber registered with plain subscribe: on, no option.
Plain(sid) == subscribers[sid].sync = "undefined" /\ subscribers[sid].limit = 0

\* The lists a dispatch found when it was called: the exact-message list, then
\* the lists of the matching patterns.
Walked(p) == posts[p].list \o posts[p].patterns

DeliveriesOf(p, identity) ==
    {i \in DOMAIN Deliveries :
        /\ Deliveries[i].post = p
        /\ <<Deliveries[i].subscriber, Deliveries[i].context>> = identity}

\* Invoked once, from a timer, with the message and the data of the dispatch.
DeliveredOnceDeferred(p, identity) ==
    /\ Cardinality(DeliveriesOf(p, identity)) = 1
    /\ \A i \in DeliveriesOf(p, identity) :
          /\ ~Deliveries[i].inline
          /\ Deliveries[i].message = posts[p].message
          /\ Deliveries[i].data = posts[p].data

OnlyPlainRegistration(p, k) ==
    /\ Plain(Walked(p)[k])
    /\ \A l \in DOMAIN Walked(p) : Identity(Walked(p)[l]) = Identity(Walked(p)[k]) => l = k
    /\ Identity(Walked(p)[k]) \notin posts[p].touched

ExpectedInline(sid, p) ==
    \/ subscribers[sid].sync = "true"
    \/ subscribers[sid].sync = "undefined" /\ posts[p].synchronous

PositionIn(list, sid) == CHOOSE k \in DOMAIN list : list[k] = sid

\* C3: sync=true runs inline, sync=false is deferred, no flag follows the
\* dispatching call (postMessage deferred, postMessageSync inline); the inline
\* subscribers of the exact-message list run in registration order.
C3_DeliveryModes ==
    /\ \A i \in DOMAIN calls : calls[i].inline <=> ExpectedInline(calls[i].sid, calls[i].post)
    /\ \A i \in DOMAIN timers : ~ExpectedInline(timers[i].sid, timers[i].post)
    /\ \A i, j \in DOMAIN calls :
          (/\ i < j
           /\ calls[i].post = calls[j].post
           /\ calls[i].inline /\ calls[j].inline
           /\ calls[i].via.hash = "messageSubscribers"
           /\ calls[j].via.hash = "messageSubscribers")
          => PositionIn(posts[calls[i].post].list, calls[i].sid)
               < PositionIn(posts[calls[j].post].list, calls[j].sid)

\* One postMessageSync has run two subscribers inline and deferred a third,
\* registered with sync=false.
C3_Witness ==
    \E i, j, k \in DOMAIN calls :
        /\ i < j
        /\ calls[i].post = calls[j].post /\ calls[j].post = calls[k].post
        /\ posts[calls[i].post].synchronous
        /\ calls[i].inline /\ calls[j].inline /\ ~calls[k].inline
        /\ subscribers[calls[i].sid].sync = "undefined"
        /\ subscribers[calls[k].sid].sync = "false"

\* C4: a (callback, context) identity that one dispatch invokes through the
\* exact-message list is not invoked by that dispatch through a pattern list.
C4_ExactThenPatternOnce ==
    \A i, j \in DOMAIN Deliveries :
        (/\ Deliveries[i].post = Deliveries[j].post
         /\ Deliveries[i].via.hash = "messageSubscribers"
         /\ Deliveries[j].via.hash = "patternMessageSubscribers")
        => <<Deliveries[i].subscriber, Deliveries[i].context>>
             # <<Deliveries[j].subscriber, Deliveries[j].context>>

\* C5: a subscriber registered with dispatch limit N is invoked at most N
\* times, and once it has been invoked N times it is registered for none of
\* the messages it was subscribed with.
C5_DispatchLimit ==
    \A sid \in DOMAIN subscribers :
        subscribers[sid].limit >= 1
        => LET n == Cardinality({i \in DOMAIN Deliveries : Deliveries[i].sid = sid})
           IN /\ n <= subscribers[sid].limit
              /\ n >= subscribers[sid].limit
                 => \A key \in MessagesOf(subscribers[sid].messages) :
                       \A k \in DOMAIN Get(HashOf(subscribers[sid].messages), key) :
                           Get(HashOf(subscribers[sid].messages), key)[k] # sid

\* C6: off(message) without a subscriber leaves the message without
\* subscribers and returns true exactly when it had one; a dispatch invokes
\* through the exact-message list only subscribers that the list held when
\* the dispatch was called.
C6_OffWithoutSubscriber ==
    /\ [][\A messages \in DispatchMessages :
            (ret'.op = "off" /\ Off(messages, NoSubscriber))
            => (/\ \A key \in MessagesOf(messages) : Get(HashOf(messages)', key) = <<>>
                /\ ret'.bool = (\E key \in MessagesOf(messages) :
                                   Get(HashOf(messages), key) # <<>>))]_vars
    /\ [](\A i \in DOMAIN Deliveries :
            Deliveries[i].via.hash = "messageSubscribers"
            => \E k \in DOMAIN posts[Deliveries[i].post].list :
                  posts[Deliveries[i].post].list[k] = Deliveries[i].sid)

\* off("a") has removed the subscribers of "a" and the dispatch of "a" that
\* followed found none.
C6_Witness ==
    /\ ret.op = "off" /\ ret.bool
    /\ subscribers # <<>>
    /\ \A sid \in DOMAIN subscribers : subscribers[sid].messages = String(<<"a">>)
    /\ messageSubscribers = <<>>
    /\ \E p \in DOMAIN posts : posts[p].list = <<>> /\ posts[p].status = "returned"
    /\ \A i \in DOMAIN Deliveries : posts[Deliveries[i].post].list # <<>>

\* The list without its first entry of the identity.
WithoutFirst(list, identity) ==
    LET same == {i \in DOMAIN list : Identity(list[i]) = identity}
        first == CHOOSE i \in same : \A j \in same : i <= j
    IN IF same = {} THEN list
       ELSE [i \in 1..(Len(list) - 1) |-> IF i < first THEN list[i] ELSE list[i + 1]]

\* C7: off(message, subscriber) takes the subscriber of that identity out of
\* the lists of the named messages and returns true; the other subscribers of
\* those lists keep their order, every other list of both tables stays as it
\* is; with no such subscriber registered it returns false and changes nothing.
C7_OffOneSubscriber ==
    [][\A messages \in TableMessages, subscriber \in TableSubscribers :
          (ret'.op = "off" /\ Off(messages, subscriber))
          => LET identity == IdentityOf(subscriber)
                 named == MessagesOf(messages)
                 found == \E key \in named : RegisteredFor(HashOf(messages), key, identity)
             IN /\ ret'.bool = found
                /\ \A key \in Range(Keys(HashOf(messages))) \cup Range(Keys(HashOf(messages)')) :
                      Get(HashOf(messages)', key)
                        = IF key \in named
                          THEN WithoutFirst(Get(HashOf(messages), key), identity)
                          ELSE Get(HashOf(messages), key)
                /\ IF messages.re THEN UNCHANGED messageSubscribers
                   ELSE UNCHANGED patternMessageSubscribers
                /\ ~found => UNCHANGED <<messageSubscribers, patternMessageSubscribers>>]_vars

\* Three subscribers were registered for "a" alone, off("a", subscriber) has
\* removed the one in the middle, and the other two are left in their order.
C7_Witness ==
    /\ ret.op = "off" /\ ret.bool
    /\ Len(subscribers) = 3
    /\ \A sid \in DOMAIN subscribers : subscribers[sid].messages = String(<<"a">>)
    /\ Get(messageSubscribers, "a") = <<1, 3>>

\* The notifications the source received for the string s.
NotificationsFor(s) == SelectSeq(notified, LAMBDA n : ~n.message.re /\ n.message.s = s)

SourceStrings == {"a", "b", "/a/"}

\* C8: for every string message the notifications to the source alternate,
\* onSubscriberAdded first, and the message has a subscriber exactly when the
\* last notification for it is onSubscriberAdded.
C8_NotificationsAlternate ==
    \A s \in SourceStrings :
        LET ns == NotificationsFor(s)
        IN /\ \A i \in DOMAIN ns :
                 ns[i].op = IF i % 2 = 1 THEN "onSubscriberAdded" ELSE "onSubscriberRemoved"
           /\ (Get(messageSubscribers, s) # <<>>)
                <=> (ns # <<>> /\ ns[Len(ns)].op = "onSubscriberAdded")

\* C9: no notification to the source is about a pattern: none carries a
\* RegExp, none comes from the table of the pattern subscribers.
C9_PatternsNeverNotify ==
    \A i \in DOMAIN notified :
        /\ ~notified[i].message.re
        /\ notified[i].hash # "patternMessageSubscribers"

\* The lists of the matching patterns, in the order of the table.
RECURSIVE MatchingLists(_, _)
MatchingLists(hash, s) ==
    IF hash = <<>> THEN <<>>
    ELSE (IF PatternTest(Head(hash).key, s) THEN Head(hash).list ELSE <<>>)
         \o MatchingLists(Tail(hash), s)

ExpectedSubscribers(message, include) ==
    Get(IF message.re THEN patternMessageSubscribers ELSE messageSubscribers, message.s)
    \o (IF ~message.re /\ include # "false"
        THEN MatchingLists(patternMessageSubscribers, message.s) ELSE <<>>)

\* C10: getSubscribers returns undefined when it has no subscriber to return,
\* never an empty array; otherwise the subscribers of the exact message in
\* registration order, then, for a string message and unless
\* includePatternSubscribers is false, those of every matching pattern.
C10_GetSubscribers ==
    [][\A message \in {Str("a"), Str("b"), Re("/a/"), Re("/./")},
          include \in {"undefined", "true", "false"} :
          (ret'.op = "getSubscribers" /\ GetSubscribers(message, include))
          => LET expected == ExpectedSubscribers(message, include)
                 own == Len(Get(IF message.re THEN patternMessageSubscribers
                                ELSE messageSubscribers, message.s))
             IN /\ ret'.undefined = (expected = <<>>)
                /\ ret'.list = expected
                /\ \A i, j \in 1..own : i < j => expected[i] < expected[j]]_vars

\* getSubscribers returned undefined for a message whose last subscriber was
\* removed, while a pattern subscriber is registered.
C10_Witness ==
    /\ ret.op = "getSubscribers" /\ ret.undefined /\ ret.list = <<>>
    /\ subscribers # <<>>
    /\ \A i \in DOMAIN subscribers :
          subscribers[i].messages \in {String(<<"a">>), RegExp("/./")}
    /\ messageSubscribers = <<>>
    /\ patternMessageSubscribers # <<>>
    /\ Len(subscribers) > Len(Get(patternMessageSubscribers, "/./"))

\* ---------------------------------------------------------------- stores
IsPrefix(p, q) == Len(p) <= Len(q) /\ SubSeq(q, 1, Len(p)) = p

Drop(q, n) == SubSeq(q, n + 1, Len(q))

Scalar(v) == {<<<<>>, v>>}

\* An object with properties, as opposed to undefined and to a scalar.
IsObject(value) == \E l \in value : l[1] # <<>>

\* model(path).get()
ValueAt(data, path) ==
    {<<Drop(l[1], Len(path)), l[2]>> : l \in {m \in data : IsPrefix(path, m[1])}}

Graft(path, value) == {<<path \o l[1], l[2]>> : l \in value}

\* model(path).set(value): the tree down to path is created where it is
\* missing, what was at path is replaced.
SetAt(data, path, value) ==
    {l \in data : ~IsPrefix(path, l[1]) /\ ~IsPrefix(l[1], path)} \cup Graft(path, value)

\* The order of the property names in an object.
Names == <<"a", "b", "m", "n", "x", "y">>

Rank(name) == CHOOSE i \in DOMAIN Names : Names[i] = name

RECURSIVE PathLess(_, _)
PathLess(p, q) ==
    IF p = <<>> THEN q # <<>>
    ELSE IF q = <<>> THEN FALSE
    ELSE IF Head(p) = Head(q) THEN PathLess(Tail(p), Tail(q))
    ELSE Rank(Head(p)) < Rank(Head(q))

RECURSIVE SortPaths(_)
SortPaths(paths) ==
    IF paths = {} THEN <<>>
    ELSE LET first == CHOOSE p \in paths : \A q \in paths \ {p} : PathLess(p, q)
         IN <<first>> \o SortPaths(paths \ {first})

\* The paths inside a value, a parent before its properties.
Descendants(value) ==
    SortPaths(UNION {{SubSeq(l[1], 1, i) : i \in 1..Len(l[1])} : l \in value})

\* The paths a set reports a change at: the containers it had to create on
\* the way, the path itself, and the paths inside the new value.
ChangedPaths(data, path, value) ==
    SelectSeq([i \in 1..Len(path) |-> SubSeq(path, 1, i - 1)],
              LAMBDA ancestor : ~IsObject(ValueAt(data, ancestor)))
    \o <<path>>
    \o [i \in DOMAIN Descendants(value) |-> path \o Descendants(value)[i]]

\* The Change records of the paths, with the values before the call and
\* after it.
Changes(before, after, paths) ==
    [i \in DOMAIN paths |-> [path |-> paths[i],
                             oldValue |-> ValueAt(before, paths[i]),
                             newValue |-> ValueAt(after, paths[i])]]

\* The 'datachanges' subscribers of a store: onSync and off of its Messenger.
dsOnSync(list, handler) ==
    IF \E i \in DOMAIN list : list[i] = handler THEN list ELSE Append(list, handler)

dsOff(list, handler) == SelectSeq(list, LAMBDA h : h # handler)

\* ---------------------------------------------------------------- connector
World ==
    [ds |-> ds, datachanges |-> datachanges, connectors |-> connectors,
     deferred |-> deferred, connectorMessages |-> connectorMessages,
     changedata |-> changedata, emitted |-> emitted, validated |-> validated,
     failing |-> {}, error |-> ""]

\* The number of times ch stands at the start of seq.
Leading(seq, ch) ==
    CHOOSE n \in 0..Len(seq) :
        /\ \A i \in 1..n : seq[i] = ch
        /\ n = Len(seq) \/ seq[n + 1] # ch

\* mode.match(modePattern), modePattern = /^(\<*)\-+(\>*)$/
matchMode(mode) ==
    LET left == Leading(mode, "<")
        dashes == Leading(Drop(mode, left), "-")
        rest == Drop(mode, left + dashes)
        right == Leading(rest, ">")
    IN [matched |-> dashes >= 1 /\ right = Len(rest), left |-> left, right |-> right]

setupModeUnequal(connector, mode) ==
    LET parsedMode == matchMode(mode)
        depth1 == parsedMode.left
        depth2 == parsedMode.right
    IN IF ~parsedMode.matched THEN [error |-> "invalid Connector mode", this |-> connector]
       ELSE IF depth1 = 0 /\ depth2 = 0
       THEN [error |-> "invalid Connector mode", this |-> connector]
       ELSE [error |-> "",
             this |-> [connector EXCEPT !.mode = mode, !.depth1 = depth1, !.depth2 = depth2]]

\* The connector after setupMode, or error when it throws.
setupMode(connector, mode) ==
    LET parsedMode == matchMode(mode)
        depth1 == parsedMode.left
        depth2 == parsedMode.right
    IN IF ~parsedMode.matched THEN [error |-> "invalid Connector mode", this |-> connector]
       ELSE IF depth1 # 0 /\ depth2 # 0 /\ depth1 # depth2
       THEN [error |-> "invalid Connector mode", this |-> connector]
       ELSE IF depth1 = 0 /\ depth2 = 0
       THEN [error |-> "invalid Connector mode", this |-> connector]
       ELSE [error |-> "",
             this |-> [connector EXCEPT !.mode = mode, !.depth1 = depth1, !.depth2 = depth2]]

\* A translation table is a sequence of rules [from, to] in key order.
HasRule(rules, from) == \E i \in DOMAIN rules : rules[i].from = from

RuleOf(rules, from) == rules[CHOOSE i \in DOMAIN rules : rules[i].from = from]

\* rules[from] = to
PutRule(rules, from, to) ==
    IF HasRule(rules, from)
    THEN [i \in DOMAIN rules |-> IF rules[i].from = from THEN [from |-> from, to |-> to]
                                 ELSE rules[i]]
    ELSE Append(rules, [from |-> from, to |-> to])

RECURSIVE reverseTranslationRules(_)
reverseTranslationRules(rules) ==
    IF rules = <<>> THEN <<>>
    ELSE LET last == rules[Len(rules)]
         IN PutRule(reverseTranslationRules(SubSeq(rules, 1, Len(rules) - 1)),
                    last.to, last.from)

\* path.indexOf('*'), counted from 1, 0 when there is no star.
indexOfStar(path) ==
    IF \E i \in DOMAIN path : path[i] = "*"
    THEN CHOOSE i \in DOMAIN path : path[i] = "*" /\ \A j \in 1..(i - 1) : path[j] # "*"
    ELSE 0

_getStaticPath(path, starIndex) == SubSeq(path, 1, starIndex - 1)

RECURSIVE getPatternTranslationsAnySuffix(_)
getPatternTranslationsAnySuffix(pathTranslation) ==
    IF pathTranslation = <<>>
    THEN [error |-> "", patternTranslation |-> <<>>, pathTranslation |-> <<>>]
    ELSE LET path1_key == Head(pathTranslation).from
             path2_value == Head(pathTranslation).to
             starIndex1 == indexOfStar(path1_key)
             starIndex2 == indexOfStar(path2_value)
             rest == getPatternTranslationsAnySuffix(Tail(pathTranslation))
             invalid == [error |-> "Invalid pattern translation",
                         patternTranslation |-> <<>>, pathTranslation |-> <<>>]
         IN IF starIndex1 > 0 /\ starIndex2 > 0
            THEN IF rest.error # "" THEN rest
                 ELSE [rest EXCEPT !.patternTranslation =
                          <<[fromPattern |-> path1_key,
                             fromStaticPath |-> _getStaticPath(path1_key, starIndex1),
                             toPattern |-> path2_value,
                             toStaticPath |-> _getStaticPath(path2_value, starIndex2)]>> \o @]
            ELSE IF starIndex1 > 0 \/ starIndex2 > 0 THEN invalid
            ELSE IF rest.error # "" THEN rest
            ELSE [rest EXCEPT !.pathTranslation = <<Head(pathTranslation)>> \o @]

\* The rules of getPatternTranslations: error when it throws, otherwise the
\* pattern rules and what is left of the table.
RECURSIVE getPatternTranslations(_)
getPatternTranslations(pathTranslation) ==
    IF pathTranslation = <<>>
    THEN [error |-> "", patternTranslation |-> <<>>, pathTranslation |-> <<>>]
    ELSE LET path1_key == Head(pathTranslation).from
             path2_value == Head(pathTranslation).to
             starIndex1 == indexOfStar(path1_key)
             starIndex2 == indexOfStar(path2_value)
             rest == getPatternTranslations(Tail(pathTranslation))
             invalid == [error |-> "Invalid pattern translation",
                         patternTranslation |-> <<>>, pathTranslation |-> <<>>]
         IN IF starIndex1 > 0 /\ starIndex2 > 0
            THEN IF Drop(path1_key, starIndex1 - 1) # Drop(path2_value, starIndex2 - 1)
                 THEN invalid
                 ELSE IF rest.error # "" THEN rest
                 ELSE [rest EXCEPT !.patternTranslation =
                          <<[fromPattern |-> path1_key,
                             fromStaticPath |-> _getStaticPath(path1_key, starIndex1),
                             toPattern |-> path2_value,
                             toStaticPath |-> _getStaticPath(path2_value, starIndex2)]>> \o @]
            ELSE IF starIndex1 > 0 \/ starIndex2 > 0 THEN invalid
            ELSE IF rest.error # "" THEN rest
            ELSE [rest EXCEPT !.pathTranslation = <<Head(pathTranslation)>> \o @]

reversePatternTranslationRules(patternTranslation) ==
    [i \in DOMAIN patternTranslation |->
        [fromPattern |-> patternTranslation[i].toPattern,
         fromStaticPath |-> patternTranslation[i].toStaticPath,
         toPattern |-> patternTranslation[i].fromPattern,
         toStaticPath |-> patternTranslation[i].fromStaticPath]]

\* pattern.test(path) for the pattern createRegexPath makes: a star stands
\* for one path segment or for none.
RECURSIVE testPattern(_, _)
testPattern(pattern, path) ==
    IF pattern = <<>> THEN path = <<>>
    ELSE IF Head(pattern) = "*"
    THEN testPattern(Tail(pattern), path)
         \/ (path # <<>> /\ testPattern(Tail(pattern), Tail(path)))
    ELSE path # <<>> /\ Head(path) = Head(pattern) /\ testPattern(Tail(pattern), Tail(path))

\* sourcePath.replace(from, to): the first occurrence of from is replaced.
replace(sourcePath, from, to) ==
    LET at == {i \in 0..(Len(sourcePath) - Len(from)) :
                  SubSeq(sourcePath, i + 1, i + Len(from)) = from}
        first == CHOOSE i \in at : \A j \in at : i <= j
    IN IF at = {} THEN sourcePath
       ELSE SubSeq(sourcePath, 1, first) \o to \o Drop(sourcePath, first + Len(from))

\* translatePath of onData; tables is [defined, pathTranslation,
\* patternTranslation] of the direction.
translatePath(tables, subscriptionPattern, sourcePath) ==
    LET none == [undefined |-> TRUE, path |-> <<>>]
        matching == {i \in DOMAIN tables.patternTranslation :
                        testPattern(tables.patternTranslation[i].fromPattern, sourcePath)}
        pt == tables.patternTranslation[CHOOSE i \in matching : \A j \in matching : i <= j]
        translatedPath == replace(sourcePath, pt.fromStaticPath, pt.toStaticPath)
    IN IF tables.defined
       THEN IF /\ HasRule(tables.pathTranslation, sourcePath)
               /\ RuleOf(tables.pathTranslation, sourcePath).to # <<>>
            THEN [undefined |-> FALSE, path |-> RuleOf(tables.pathTranslation, sourcePath).to]
            ELSE IF tables.patternTranslation = <<>> THEN none
            ELSE IF matching = {} THEN none
            ELSE [undefined |-> FALSE,
                  path |-> IF translatedPath # <<>> THEN translatedPath ELSE sourcePath]
       ELSE IF ~testPattern(subscriptionPattern, sourcePath) THEN none
       ELSE [undefined |-> FALSE, path |-> sourcePath]

\* A connector as its constructor leaves it before setupMode.
NoLink ==
    [connector |-> 0, link |-> 0, id |-> 0, subscriptionPattern |-> <<>>,
     fromDS |-> 0, toDS |-> 0]

\* dataValidation of the options: for '->' and for '<-' a sequence of
\* [path, validators]; a validator is what it does with its callback.
NoValidation == [defined |-> FALSE, forward |-> <<>>, backward |-> <<>>]

\* dataTranslation of the options: for '->' and for '<-' a sequence of
\* [path, translate]; translate names the function, or is "none" for a value
\* that is not a function.
NoDataTranslation == [defined |-> FALSE, forward |-> <<>>, backward |-> <<>>]

WithoutOptions ==
    [defined |-> FALSE, pathTranslation |-> [defined |-> FALSE, rules |-> <<>>],
     dataTranslation |-> NoDataTranslation, dataValidation |-> NoValidation]

NewConnector(ds1, ds2) ==
    [mode |-> <<>>, depth1 |-> 0, depth2 |-> 0, ds1 |-> ds1, ds2 |-> ds2, isOn |-> FALSE,
     _changesQueue1 |-> <<>>, _changesQueue2 |-> <<>>, _link1 |-> NoLink, _link2 |-> NoLink,
     options |-> WithoutOptions, translation |-> FALSE,
     pathTranslation1 |-> <<>>, pathTranslation2 |-> <<>>,
     patternTranslation1 |-> <<>>, patternTranslation2 |-> <<>>,
     dataTranslation1 |-> <<>>, dataTranslation2 |-> <<>>,
     dataValidation1 |-> <<>>, dataValidation2 |-> <<>>,
     _destroyed |-> FALSE, links |-> 0]

LinkName(link) == IF link = 1 THEN "_link1" ELSE "_link2"

QueueName(link) == IF link = 1 THEN "_changesQueue1" ELSE "_changesQueue2"

\* linkDataSource('_link2', ds2, ds1, ...) makes _link1 and
\* linkDataSource('_link1', ds1, ds2, ...) makes _link2.
reverseLink(link) == IF link = 1 THEN "_link2" ELSE "_link1"

fromDS(this, link) == IF link = 1 THEN this.ds2 ELSE this.ds1

toDS(this, link) == IF link = 1 THEN this.ds1 ELSE this.ds2

TablesOf(this, link) ==
    [defined |-> this.translation,
     pathTranslation |-> IF link = 1 THEN this.pathTranslation1 ELSE this.pathTranslation2,
     patternTranslation |-> IF link = 1 THEN this.patternTranslation1
                            ELSE this.patternTranslation2]

\* this.postMessage(message, data) of a connector; data is {source, target},
\* 0 and 0 for a message without data.
Connector_postMessageData(w, c, message, source, target) ==
    [w EXCEPT !.connectorMessages =
        Append(@, [connector |-> c, message |-> message,
                   source |-> source, target |-> target])]

\* this.postMessage(message) of a connector.
Connector_postMessage(w, c, message) == Connector_postMessageData(w, c, message, 0, 0)

\* _.defer(func): func is postChangeData of the link onData was made for, or
\* changeMode of a connector with its argument.
defer(w, func) == [w EXCEPT !.deferred = Append(@, func)]

linkDataSource(w, c, link, subscriptionPattern) ==
    LET this == w.connectors[c]
        onData == [connector |-> c, link |-> link, id |-> this.links + 1,
                   subscriptionPattern |-> subscriptionPattern,
                   fromDS |-> fromDS(this, link), toDS |-> toDS(this, link)]
    IN [w EXCEPT !.datachanges[fromDS(this, link)] = dsOnSync(@, onData),
                 !.connectors[c].links = @ + 1,
                 !.connectors[c][LinkName(link)] = onData]

turnOnAlways(w, c) ==
    LET this == w.connectors[c]
        stars == (IF this.depth1 # 0 THEN this.depth1 ELSE this.depth2) - 1
        subscriptionPattern == [i \in 1..stars |-> "*"]
        linked1 == IF this.depth1 # 0 THEN linkDataSource(w, c, 1, subscriptionPattern) ELSE w
        linked2 == IF this.depth2 # 0 THEN linkDataSource(linked1, c, 2, subscriptionPattern)
                   ELSE linked1
    IN IF this._destroyed THEN [w EXCEPT !.error = "TypeError"]
       ELSE Connector_postMessage([linked2 EXCEPT !.connectors[c].isOn = TRUE], c, "turnedon")

\* turnOn(); the endpoints of a destroyed connector are deleted and
\* fromDS.onSync throws.
turnOn(w, c) ==
    LET this == w.connectors[c]
        stars == (IF this.depth1 # 0 THEN this.depth1 ELSE this.depth2) - 1
        subscriptionPattern == [i \in 1..stars |-> "*"]
        linked1 == IF this.depth1 # 0 THEN linkDataSource(w, c, 1, subscriptionPattern) ELSE w
        linked2 == IF this.depth2 # 0 THEN linkDataSource(linked1, c, 2, subscriptionPattern)
                   ELSE linked1
    IN IF this.isOn THEN w
       ELSE IF this._destroyed THEN [w EXCEPT !.error = "TypeError"]
       ELSE Connector_postMessage([linked2 EXCEPT !.connectors[c].isOn = TRUE], c, "turnedon")

unlinkDataSourceKept(w, c, store, linkName) ==
    IF w.connectors[c][linkName] # NoLink
    THEN [w EXCEPT !.connectors[c][linkName] = NoLink]
    ELSE w

unlinkDataSource(w, c, store, linkName) ==
    IF w.connectors[c][linkName] # NoLink
    THEN [w EXCEPT !.datachanges[store] = dsOff(@, w.connectors[c][linkName]),
                   !.connectors[c][linkName] = NoLink]
    ELSE w

turnOffAlways(w, c) ==
    LET this == w.connectors[c]
        unlinked == unlinkDataSource(unlinkDataSource(w, c, this.ds1, "_link2"),
                                     c, this.ds2, "_link1")
    IN Connector_postMessage([unlinked EXCEPT !.connectors[c].isOn = FALSE], c, "turnedoff")

turnOff(w, c) ==
    LET this == w.connectors[c]
        unlinked == unlinkDataSource(unlinkDataSource(w, c, this.ds1, "_link2"),
                                     c, this.ds2, "_link1")
    IN IF ~this.isOn THEN w
       ELSE Connector_postMessage([unlinked EXCEPT !.connectors[c].isOn = FALSE], c, "turnedoff")

changeModeStillOn(w, c, mode) ==
    LET setup == setupMode(w.connectors[c], mode)
    IN IF setup.error # "" THEN [w EXCEPT !.error = setup.error]
       ELSE turnOn([w EXCEPT !.connectors[c] = setup.this], c)

changeModeAssigning(w, c, mode) ==
    LET off == turnOff(w, c)
        parsedMode == matchMode(mode)
        setup == setupMode(off.connectors[c], mode)
    IN IF setup.error # ""
       THEN [off EXCEPT !.error = setup.error,
                        !.connectors[c].mode = mode,
                        !.connectors[c].depth1 = parsedMode.left,
                        !.connectors[c].depth2 = parsedMode.right]
       ELSE turnOn([off EXCEPT !.connectors[c] = setup.this], c)

changeMode(w, c, mode) ==
    LET off == turnOff(w, c)
        setup == setupMode(off.connectors[c], mode)
    IN IF setup.error # "" THEN [off EXCEPT !.error = setup.error]
       ELSE turnOn([off EXCEPT !.connectors[c] = setup.this], c)

deferChangeModeNow(w, c, mode) == changeMode(w, c, mode)

\* _.deferMethod(this, 'changeMode', mode)
deferChangeMode(w, c, mode) ==
    defer(w, [method |-> "changeMode", connector |-> c, link |-> 0, id |-> 0, mode |-> mode,
              fromDS |-> 0, toDS |-> 0])

destroyStillOn(w, c) ==
    [Connector_postMessage(w, c, "destroyed")
        EXCEPT !.connectors[c].ds1 = 0, !.connectors[c].ds2 = 0,
               !.connectors[c]._destroyed = TRUE]

\* destroy(): delete this.ds1 and delete this.ds2 leave the endpoints 0.
destroy(w, c) ==
    [Connector_postMessage(turnOff(w, c), c, "destroyed")
        EXCEPT !.connectors[c].ds1 = 0, !.connectors[c].ds2 = 0,
               !.connectors[c]._destroyed = TRUE]

ConnectorTurnedOnFirst(w, ds1, mode, ds2, options) ==
    LET c == Len(w.connectors) + 1
        setup == setupMode(NewConnector(ds1, ds2), mode)
        on == turnOn([w EXCEPT !.connectors = Append(@, setup.this)], c)
        pattern == getPatternTranslations(options.pathTranslation.rules)
    IN IF setup.error # "" THEN [w EXCEPT !.error = setup.error]
       ELSE IF options.defined /\ options.pathTranslation.defined /\ pattern.error # ""
       THEN [on EXCEPT !.error = pattern.error, !.connectors = w.connectors]
       ELSE on

\* new Connector(ds1, mode, ds2, options); options is [defined, pathTranslation]
\* and pathTranslation is [defined, rules].
Connector(w, ds1, mode, ds2, options) ==
    LET c == Len(w.connectors) + 1
        setup == setupMode(NewConnector(ds1, ds2), mode)
        translate == options.defined /\ options.pathTranslation.defined
        pattern == getPatternTranslations(options.pathTranslation.rules)
        validating == options.defined /\ options.dataValidation.defined
        translating == options.defined /\ options.dataTranslation.defined
        configured == IF options.defined
                      THEN [setup.this EXCEPT
                               !.options = options,
                               !.dataTranslation1 =
                                   IF translating THEN options.dataTranslation.backward
                                   ELSE <<>>,
                               !.dataTranslation2 =
                                   IF translating THEN options.dataTranslation.forward
                                   ELSE <<>>,
                               !.dataValidation1 =
                                   IF validating THEN options.dataValidation.backward ELSE <<>>,
                               !.dataValidation2 =
                                   IF validating THEN options.dataValidation.forward ELSE <<>>]
                      ELSE setup.this
        this == IF translate
                THEN [configured EXCEPT
                         !.translation = TRUE,
                         !.pathTranslation1 = reverseTranslationRules(pattern.pathTranslation),
                         !.pathTranslation2 = pattern.pathTranslation,
                         !.patternTranslation1 =
                             reversePatternTranslationRules(pattern.patternTranslation),
                         !.patternTranslation2 = pattern.patternTranslation]
                ELSE configured
    IN IF setup.error # "" THEN [w EXCEPT !.error = setup.error]
       ELSE IF translate /\ pattern.error # "" THEN [w EXCEPT !.error = pattern.error]
       ELSE turnOn([w EXCEPT !.connectors = Append(@, this)], c)

\* validators.forEach(callValidator) of validateData: the 'validated'
\* messages posted on the source. A validator is "valid", "invalid" or "error"
\* by what it passes to its callback (err with a response that is not valid
\* for "error"), or "never" when it does not call back.
RECURSIVE callValidators(_, _, _, _, _, _)
callValidators(validators, n, passedCount, alreadyFailed, sourcePath, source) ==
    IF validators = <<>> THEN <<>>
    ELSE LET validator == Head(validators)
             err == validator = "error"
             valid == validator = "valid"
             response == [store |-> source, path |-> sourcePath, valid |-> valid]
             counted == ~alreadyFailed /\ (err \/ valid)
             passed == IF counted THEN passedCount + 1 ELSE passedCount
         IN IF validator = "never"
            THEN callValidators(Tail(validators), n, passedCount, alreadyFailed,
                                sourcePath, source)
            ELSE IF counted /\ passed = n
            THEN <<response>> \o callValidators(Tail(validators), n, passed, alreadyFailed,
                                                sourcePath, source)
            ELSE IF ~valid
            THEN <<response>> \o callValidators(Tail(validators), n, passed, TRUE,
                                                sourcePath, source)
            ELSE callValidators(Tail(validators), n, passed, alreadyFailed,
                                sourcePath, source)

validateDataBlocking(sourcePath, change, dataValidation, source) ==
    LET at == {i \in DOMAIN dataValidation : dataValidation[i].path = sourcePath}
        validators == IF at = {} THEN <<>> ELSE dataValidation[CHOOSE i \in at : TRUE].validators
        posted == callValidators(validators, Len(validators), 0, FALSE, sourcePath, source)
    IN [changes |-> IF validators = <<>>
                       \/ (posted # <<>> /\ posted[Len(posted)].valid) THEN <<change>>
                    ELSE <<>>,
        validated |-> posted]

\* validateData(sourcePath, change): the change is propagated, then the
\* validators of the path are called.
validateData(sourcePath, change, dataValidation, source) ==
    LET at == {i \in DOMAIN dataValidation : dataValidation[i].path = sourcePath}
        validators == IF at = {} THEN <<>> ELSE dataValidation[CHOOSE i \in at : TRUE].validators
    IN [changes |-> <<change>>,
        validated |-> callValidators(validators, Len(validators), 0, FALSE,
                                     sourcePath, source)]

\* The functions of the data translation tables: "upper" and "lower" turn
\* every scalar of a value into its upper-case and its lower-case form.
UpperOf(scalar) ==
    CASE scalar = "v1" -> "V1"
      [] scalar = "v2" -> "V2"
      [] OTHER -> scalar

LowerOf(scalar) ==
    CASE scalar = "V1" -> "v1"
      [] scalar = "V2" -> "v2"
      [] OTHER -> scalar

\* translate(value)
translate(function, value) ==
    IF function = "upper" THEN {<<l[1], UpperOf(l[2])>> : l \in value}
    ELSE {<<l[1], LowerOf(l[2])>> : l \in value}

translateDataNewValue(sourcePath, change, dataTranslation) ==
    LET at == {i \in DOMAIN dataTranslation : dataTranslation[i].path = sourcePath}
        function == dataTranslation[CHOOSE i \in at : TRUE].translate
    IN IF at # {} /\ function # "none"
       THEN [change EXCEPT !.newValue = translate(function, @)]
       ELSE change

\* translateData(sourcePath, change): the change with its values translated
\* by the function the table of the direction has for the source path.
translateData(sourcePath, change, dataTranslation) ==
    LET at == {i \in DOMAIN dataTranslation : dataTranslation[i].path = sourcePath}
        function == dataTranslation[CHOOSE i \in at : TRUE].translate
    IN IF at # {} /\ function # "none"
       THEN [change EXCEPT !.oldValue = translate(function, @),
                           !.newValue = translate(function, @)]
       ELSE change

\* batch.changes.forEach of onData: the changes propagated, translated, and
\* the 'validated' messages posted.
RECURSIVE propagated(_, _, _, _, _, _)
propagated(changes, tables, subscriptionPattern, dataTranslation, dataValidation, source) ==
    IF changes = <<>> THEN [changes |-> <<>>, validated |-> <<>>]
    ELSE LET change == Head(changes)
             targetPath == translatePath(tables, subscriptionPattern, change.path)
             rest == propagated(Tail(changes), tables, subscriptionPattern,
                                dataTranslation, dataValidation, source)
             sent == validateData(change.path,
                                  translateData(change.path,
                                      [path |-> targetPath.path,
                                       oldValue |-> change.oldValue,
                                       newValue |-> change.newValue, source |-> source],
                                      dataTranslation),
                                  dataValidation, source)
         IN IF targetPath.undefined THEN rest
            ELSE [changes |-> sent.changes \o rest.changes,
                  validated |-> sent.validated \o rest.validated]

ValidationOf(this, link) == IF link = 1 THEN this.dataValidation1 ELSE this.dataValidation2

DataTranslationOf(this, link) ==
    IF link = 1 THEN this.dataTranslation1 ELSE this.dataTranslation2

\* postChangeData of the link onData was made for, as _.defer holds it.
postChangeDataOf(handler) ==
    [method |-> "postChangeData", connector |-> handler.connector, link |-> handler.link,
     id |-> handler.id, mode |-> <<>>, fromDS |-> handler.fromDS, toDS |-> handler.toDS]

onDataUnscheduled(w, handler, batch) ==
    LET c == handler.connector
        this == w.connectors[c]
        sent == propagated(batch.changes, TablesOf(this, handler.link),
                           handler.subscriptionPattern,
                           DataTranslationOf(this, handler.link),
                           ValidationOf(this, handler.link), handler.fromDS)
        sendData == [changes |-> sent.changes, transaction |-> batch.transaction]
    IN [w EXCEPT !.connectors[c][QueueName(handler.link)] = Append(@, sendData),
                 !.validated = @ \o sent.validated]

onDataAlwaysScheduled(w, handler, batch) ==
    LET c == handler.connector
        this == w.connectors[c]
        sent == propagated(batch.changes, TablesOf(this, handler.link),
                           handler.subscriptionPattern,
                           DataTranslationOf(this, handler.link),
                           ValidationOf(this, handler.link), handler.fromDS)
        sendData == [changes |-> sent.changes, transaction |-> batch.transaction]
    IN [defer(w, postChangeDataOf(handler))
           EXCEPT !.connectors[c][QueueName(handler.link)] = Append(@, sendData),
                  !.validated = @ \o sent.validated]

\* onData(message, batch) of the link the handler was made for.
onData(w, handler, batch) ==
    LET c == handler.connector
        this == w.connectors[c]
        changesQueue == this[QueueName(handler.link)]
        sent == propagated(batch.changes, TablesOf(this, handler.link),
                           handler.subscriptionPattern,
                           DataTranslationOf(this, handler.link),
                           ValidationOf(this, handler.link), handler.fromDS)
        sendData == [changes |-> sent.changes, transaction |-> batch.transaction]
        scheduled == IF changesQueue = <<>> THEN defer(w, postChangeDataOf(handler)) ELSE w
    IN [scheduled EXCEPT !.connectors[c][QueueName(handler.link)] = Append(@, sendData),
                         !.validated = @ \o sent.validated]

\* store.postMessageSync('datachanges', batch): the subscribers in the order
\* they were attached.
\* A subscriber of the application, attached with onSync('datachanges', ...)
\* to one store: as it is called it sets a path of another store.
ReactionPath == <<"a">>

ReactionValue == Scalar("v2")

Reaction(store, target) ==
    [connector |-> 0, link |-> 0, id |-> 0, subscriptionPattern |-> <<>>,
     fromDS |-> store, toDS |-> target]


RECURSIVE Model_set(_, _, _, _)
RECURSIVE callSubscribers(_, _, _)
callSubscribers(w, handlers, batch) ==
    IF handlers = <<>> THEN w
    ELSE LET handler == Head(handlers)
             called == IF handler.connector = 0
                       THEN Model_set(w, handler.toDS, ReactionPath, ReactionValue)
                       ELSE onData(w, handler, batch)
         IN callSubscribers(called, Tail(handlers), batch)

postDataChanges(w, store, batch) ==
    callSubscribers([w EXCEPT !.emitted =
                        Append(@, [store |-> store, changes |-> batch.changes,
                                   transaction |-> batch.transaction,
                                   subscribers |-> w.datachanges[store]])],
                    w.datachanges[store], batch)

\* model(path).set(value) of a reactive model: the data changes and one
\* batch of changes is posted, nothing when the value is the one held. The
\* values of a change are held by reference: what a subscriber reads is the
\* value as the running operation leaves it, after.
setAndPost(w, store, path, value, transaction, after) ==
    LET before == w.ds[store]
        changed == [w EXCEPT !.ds[store] = SetAt(before, path, value)]
    IN IF ValueAt(before, path) = value THEN w
       ELSE postDataChanges(changed, store,
                [changes |-> Changes(before, after, ChangedPaths(before, path, value)),
                 transaction |-> transaction])

Model_set(w, store, path, value) ==
    setAndPost(w, store, path, value, 0, SetAt(w.ds[store], path, value))

subscriptionSwitchNothing(w, callback, err, changeFinished) ==
    IF err THEN w
    ELSE Connector_postMessageData(w, callback.connector,
             IF changeFinished THEN "changecompleted" ELSE "changestarted",
             callback.fromDS, callback.toDS)

subscriptionSwitchStarted(w, callback, err, changeFinished) ==
    LET c == callback.connector
        subscriber == w.connectors[c][reverseLink(callback.link)]
        target == callback.toDS
        switched ==
            IF changeFinished
            THEN IF subscriber = NoLink THEN [w EXCEPT !.error = "TypeError"]
                 ELSE [w EXCEPT !.datachanges[target] = dsOnSync(@, subscriber)]
            ELSE IF subscriber = NoLink THEN [w EXCEPT !.datachanges[target] = <<>>]
                 ELSE [w EXCEPT !.datachanges[target] = dsOff(@, subscriber)]
    IN IF err THEN w
       ELSE IF switched.error # "" THEN switched
       ELSE Connector_postMessageData(switched, c, "changestarted",
                                      callback.fromDS, callback.toDS)

subscriptionSwitchOnError(w, callback, err, changeFinished) ==
    LET c == callback.connector
        subscriber == w.connectors[c][reverseLink(callback.link)]
        target == callback.toDS
        switched ==
            IF changeFinished
            THEN IF subscriber = NoLink THEN [w EXCEPT !.error = "TypeError"]
                 ELSE [w EXCEPT !.datachanges[target] = dsOnSync(@, subscriber)]
            ELSE IF subscriber = NoLink THEN [w EXCEPT !.datachanges[target] = <<>>]
                 ELSE [w EXCEPT !.datachanges[target] = dsOff(@, subscriber)]
    IN IF switched.error # "" THEN switched
       ELSE Connector_postMessageData(switched, c,
                IF changeFinished THEN "changecompleted" ELSE "changestarted",
                callback.fromDS, callback.toDS)

\* subscriptionSwitch(err, changeFinished), the callback of a write;
\* callback is [defined, connector, link, fromDS, toDS].
subscriptionSwitch(w, callback, err, changeFinished) ==
    LET c == callback.connector
        subscriber == w.connectors[c][reverseLink(callback.link)]
        target == callback.toDS
        switched ==
            IF changeFinished
            THEN IF subscriber = NoLink THEN [w EXCEPT !.error = "TypeError"]
                 ELSE [w EXCEPT !.datachanges[target] = dsOnSync(@, subscriber)]
            ELSE IF subscriber = NoLink THEN [w EXCEPT !.datachanges[target] = <<>>]
                 ELSE [w EXCEPT !.datachanges[target] = dsOff(@, subscriber)]
    IN IF err THEN w
       ELSE IF switched.error # "" THEN switched
       ELSE Connector_postMessageData(switched, c,
                IF changeFinished THEN "changecompleted" ELSE "changestarted",
                callback.fromDS, callback.toDS)

\* The data after the sets of one 'changedata' write.
RECURSIVE written(_, _)
written(data, changes) ==
    IF changes = <<>> THEN data
    ELSE written(SetAt(data, Head(changes).path, Head(changes).newValue), Tail(changes))

\* The sets of one 'changedata' write, each posting its batch with the
\* transaction id of the write.
RECURSIVE executeChanges(_, _, _, _, _)
executeChanges(w, store, changes, transaction, after) ==
    IF changes = <<>> THEN w
    ELSE executeChanges(setAndPost(w, store, Head(changes).path, Head(changes).newValue,
                                   transaction, after),
                        store, Tail(changes), transaction, after)

\* changeDataHandler, the subscriber of 'changedata' of every reactive
\* model; callback is [defined, connector, link, fromDS, toDS]. The write is
\* one transaction, its id the number of the write. A write to a store of
\* w.failing changes nothing and reports an error when it completes.
changeDataHandler(w, store, data, callback) ==
    LET started == IF callback.defined THEN subscriptionSwitch(w, callback, FALSE, FALSE)
                   ELSE w
        err == store \in w.failing
        logged == [started EXCEPT !.changedata =
                      Append(@, [store |-> store, changes |-> data.changes,
                                 callback |-> callback, err |-> err,
                                 subscribers |-> started.datachanges[store]])]
        done == IF err THEN logged
                ELSE executeChanges(logged, store, data.changes, Len(logged.changedata),
                                    written(logged.ds[store], data.changes))
    IN IF callback.defined THEN subscriptionSwitch(done, callback, err, TRUE)
       ELSE done

RECURSIVE mergeBatchesApart(_)
mergeBatchesApart(batches) ==
    IF batches = <<>> THEN [transactions |-> <<>>, currentTransaction |-> FALSE]
    ELSE LET merged == mergeBatchesApart(SubSeq(batches, 1, Len(batches) - 1))
             batch == batches[Len(batches)]
         IN IF batch.changes = <<>> THEN merged
            ELSE [transactions |-> Append(merged.transactions, batch.changes),
                  currentTransaction |-> FALSE]

RECURSIVE mergeBatchesReversed(_)
mergeBatchesReversed(batches) ==
    IF batches = <<>> THEN [transactions |-> <<>>, currentTransaction |-> FALSE]
    ELSE LET merged == mergeBatchesReversed(SubSeq(batches, 1, Len(batches) - 1))
             batch == batches[Len(batches)]
             current == batch.transaction # 0 /\ merged.currentTransaction
             n == Len(merged.transactions)
         IN IF batch.changes = <<>>
            THEN [merged EXCEPT !.currentTransaction = current]
            ELSE IF batch.transaction # 0
            THEN IF current
                 THEN [merged EXCEPT !.transactions[n] = batch.changes \o @]
                 ELSE [transactions |-> Append(merged.transactions, batch.changes),
                       currentTransaction |-> TRUE]
            ELSE [transactions |-> Append(merged.transactions, batch.changes),
                  currentTransaction |-> FALSE]

RECURSIVE mergeBatchesSkipEnds(_)
mergeBatchesSkipEnds(batches) ==
    IF batches = <<>> THEN [transactions |-> <<>>, currentTransaction |-> FALSE]
    ELSE LET merged == mergeBatchesSkipEnds(SubSeq(batches, 1, Len(batches) - 1))
             batch == batches[Len(batches)]
             current == batch.transaction # 0 /\ merged.currentTransaction
             n == Len(merged.transactions)
         IN IF batch.changes = <<>>
            THEN [merged EXCEPT !.currentTransaction = FALSE]
            ELSE IF batch.transaction # 0
            THEN IF current
                 THEN [merged EXCEPT !.transactions[n] = @ \o batch.changes]
                 ELSE [transactions |-> Append(merged.transactions, batch.changes),
                       currentTransaction |-> TRUE]
            ELSE [transactions |-> Append(merged.transactions, batch.changes),
                  currentTransaction |-> FALSE]

\* mergeTransactions(batches): transactions so far and whether the last of
\* them is the current transaction. batch.transaction is the id of the
\* transaction, 0 for a batch without one; the code tests only whether it is
\* set.
RECURSIVE mergeBatches(_)
mergeBatches(batches) ==
    IF batches = <<>> THEN [transactions |-> <<>>, currentTransaction |-> FALSE]
    ELSE LET merged == mergeBatches(SubSeq(batches, 1, Len(batches) - 1))
             batch == batches[Len(batches)]
             current == batch.transaction # 0 /\ merged.currentTransaction
             n == Len(merged.transactions)
         IN IF batch.changes = <<>>
            THEN [merged EXCEPT !.currentTransaction = current]
            ELSE IF batch.transaction # 0
            THEN IF current
                 THEN [merged EXCEPT !.transactions[n] = @ \o batch.changes]
                 ELSE [transactions |-> Append(merged.transactions, batch.changes),
                       currentTransaction |-> TRUE]
            ELSE [transactions |-> Append(merged.transactions, batch.changes),
                  currentTransaction |-> FALSE]

mergeTransactions(batches) == mergeBatches(batches).transactions

RECURSIVE postTransactions(_, _, _, _)
postTransactions(w, store, transactions, callback) ==
    IF transactions = <<>> THEN w
    ELSE postTransactions(changeDataHandler(w, store, [changes |-> Head(transactions)],
                                            callback),
                          store, Tail(transactions), callback)

postChangeDataEmptiesLast(w, func) ==
    LET c == func.connector
        this == w.connectors[c]
        callback == [defined |-> this[reverseLink(func.link)] # NoLink,
                     connector |-> c, link |-> func.link,
                     fromDS |-> func.fromDS, toDS |-> func.toDS]
        transactions == mergeTransactions(this[QueueName(func.link)])
        posted == postTransactions(w, func.toDS, transactions, callback)
    IN [posted EXCEPT !.connectors[c][QueueName(func.link)] = <<>>]

postChangeDataWhenOn(w, func) ==
    LET c == func.connector
        this == w.connectors[c]
        callback == [defined |-> this[reverseLink(func.link)] # NoLink,
                     connector |-> c, link |-> func.link,
                     fromDS |-> func.fromDS, toDS |-> func.toDS]
        transactions == mergeTransactions(this[QueueName(func.link)])
        emptied == [w EXCEPT !.connectors[c][QueueName(func.link)] = <<>>]
    IN IF ~this.isOn THEN emptied
       ELSE postTransactions(emptied, func.toDS, transactions, callback)

\* postChangeData of a link, run by the tick it was deferred to; func holds
\* the endpoints the link was made with.
postChangeData(w, func) ==
    LET c == func.connector
        this == w.connectors[c]
        callback == [defined |-> this[reverseLink(func.link)] # NoLink,
                     connector |-> c, link |-> func.link,
                     fromDS |-> func.fromDS, toDS |-> func.toDS]
        transactions == mergeTransactions(this[QueueName(func.link)])
        emptied == [w EXCEPT !.connectors[c][QueueName(func.link)] = <<>>]
    IN postTransactions(emptied, func.toDS, transactions, callback)

\* A function _.defer holds, run by its tick.
runDeferred(w, func) ==
    IF func.method = "changeMode" THEN changeMode(w, func.connector, func.mode)
    ELSE postChangeData(w, func)

\* ---------------------------------------------------------------- two connected stores
MaxSets == 3

CommitW(w, observed) ==
    /\ ds' = w.ds
    /\ datachanges' = w.datachanges
    /\ connectors' = w.connectors
    /\ deferred' = w.deferred
    /\ connectorMessages' = w.connectorMessages
    /\ changedata' = w.changedata
    /\ emitted' = w.emitted
    /\ validated' = w.validated
    /\ error' = w.error
    /\ watch' = observed
    /\ UNCHANGED messengerVars

Empty ==
    [ds |-> [s \in Stores |-> {}], datachanges |-> [s \in Stores |-> <<>>],
     connectors |-> <<>>, deferred |-> <<>>, connectorMessages |-> <<>>,
     changedata |-> <<>>, emitted |-> <<>>, validated |-> <<>>, failing |-> {},
     error |-> ""]

\* Nothing is queued and no flush is scheduled.
Quiescent ==
    /\ deferred = <<>>
    /\ \A c \in DOMAIN connectors :
          connectors[c]._changesQueue1 = <<>> /\ connectors[c]._changesQueue2 = <<>>

\* The stores a connector connects read the same.
InSync ==
    \A c \in DOMAIN connectors :
        ~connectors[c]._destroyed => ds[connectors[c].ds1] = ds[connectors[c].ds2]

\* model(path).set(value) by the application. watch remembers the set when it
\* was made on stores that read the same with nothing pending: how many
\* deferred functions are ahead of one deferred right after it, whether the
\* first change of its batch is at most one level deep, and how long the
\* histories were.
Set(store, path, value) ==
    /\ watch.sets < MaxSets
    /\ LET w == Model_set(World, store, path, value)
           paths == ChangedPaths(ds[store], path, value)
       IN CommitW(w, [op |-> "set",
                      store |-> IF Quiescent /\ InSync THEN store ELSE 0,
                      ahead |-> Len(w.deferred),
                      run |-> 0,
                      shallow |-> Len(paths[1]) <= 1,
                      sets |-> watch.sets + 1,
                      calls |-> watch.calls,
                      mode |-> watch.mode,
                      emittedAt |-> Len(emitted),
                      writtenAt |-> Len(changedata),
                      origin |-> IF Quiescent /\ InSync THEN store ELSE 0])

\* The tick runs the function deferred first.
RunDeferred ==
    /\ deferred # <<>>
    /\ LET w == runDeferred([World EXCEPT !.deferred = Tail(@)], Head(deferred))
       IN CommitW(w, [watch EXCEPT !.op = "run",
                                   !.store = IF watch.ahead = 0 THEN 0 ELSE @,
                                   !.ahead = IF @ = 0 THEN 0 ELSE @ - 1,
                                   !.run = @ + 1])

ConnPaths == {<<"a">>, <<"a", "b">>, <<"x">>}

ConnValues == {Scalar("v1"), Scalar("v2"), {<<<<"b">>, "v1">>}}

ConnModes == {<<"<", "<", "-", ">", ">">>, <<"<", "<", "<", "-", ">", ">", ">">>}

\* The Messenger of the claims above is not in use.
NoMessenger ==
    /\ messageSource = FALSE
    /\ messageSubscribers = <<>>
    /\ patternMessageSubscribers = <<>>
    /\ subscribers = <<>>
    /\ timers = <<>>
    /\ stack = <<>>
    /\ posts = <<>>
    /\ calls = <<>>
    /\ notified = <<>>
    /\ threw = FALSE
    /\ ret = Returned("none", FALSE)

InitConn ==
    /\ NoMessenger
    /\ \E mode \in ConnModes :
          LET w == Connector(Empty, 1, mode, 2, WithoutOptions)
          IN /\ ds = w.ds
             /\ datachanges = w.datachanges
             /\ connectors = w.connectors
             /\ deferred = w.deferred
             /\ connectorMessages = w.connectorMessages
             /\ changedata = w.changedata
             /\ emitted = w.emitted
             /\ validated = w.validated
             /\ error = w.error
             /\ watch = NoWatch

NextConn ==
    \/ \E store \in {1, 2}, path \in ConnPaths, value \in ConnValues : Set(store, path, value)
    \/ RunDeferred

SpecConn == InitConn /\ [][NextConn]_vars

\* ---------------------------------------------------------------- chain of two connectors
ChainPaths == {<<>>, <<"x">>, <<"x", "m">>}

ChainValues ==
    {{<<<<"a">>, "v1">>, <<<<"x", "m">>, "v1">>, <<<<"x", "n">>, "v2">>},
     {<<<<"a">>, "v2">>, <<<<"x", "m">>, "v2">>, <<<<"x", "n">>, "v2">>},
     {<<<<"m">>, "v1">>, <<<<"n">>, "v1">>},
     Scalar("v1")}

ChainTranslation ==
    [defined |-> TRUE,
     pathTranslation |->
        [defined |-> TRUE,
         rules |-> <<[from |-> <<"a">>, to |-> <<"a">>],
                     [from |-> <<"x", "m">>, to |-> <<"x", "m">>],
                     [from |-> <<"x", "n">>, to |-> <<"x", "n">>]>>],
     dataTranslation |-> NoDataTranslation, dataValidation |-> NoValidation]

OneDeep == <<"<", "-", ">">>

InitChain ==
    /\ NoMessenger
    /\ \E options \in {ChainTranslation, WithoutOptions} :
          LET w == Connector(Connector(Empty, 1, OneDeep, 2, options),
                             2, <<"<", "<", "-", ">", ">">>, 3, WithoutOptions)
          IN /\ ds = w.ds
             /\ datachanges = w.datachanges
             /\ connectors = w.connectors
             /\ deferred = w.deferred
             /\ connectorMessages = w.connectorMessages
             /\ changedata = w.changedata
             /\ emitted = w.emitted
             /\ validated = w.validated
             /\ error = w.error
             /\ watch = NoWatch

MaxChainSets == 2

NextChain ==
    \/ \E store \in Stores, path \in ChainPaths, value \in ChainValues :
          watch.sets < MaxChainSets /\ Set(store, path, value)
    \/ RunDeferred

SpecChain == InitChain /\ [][NextChain]_vars

\* ---------------------------------------------------------------- path translation
MaxPathSets == 2

Rules(rules) ==
    [defined |-> TRUE, pathTranslation |-> [defined |-> TRUE, rules |-> rules],
     dataTranslation |-> NoDataTranslation, dataValidation |-> NoValidation]

PathTables ==
    {Rules(<<[from |-> <<"a">>, to |-> <<"x">>]>>),
     Rules(<<[from |-> <<"a", "b">>, to |-> <<"x", "y">>]>>),
     Rules(<<[from |-> <<"a">>, to |-> <<>>]>>),
     Rules(<<[from |-> <<"a", "*", "*">>, to |-> <<"x", "*", "*">>]>>),
     Rules(<<[from |-> <<"*", "*">>, to |-> <<"x", "*", "*">>]>>),
     Rules(<<[from |-> <<"a">>, to |-> <<"x">>], [from |-> <<"b">>, to |-> <<"x">>]>>),
     WithoutOptions}

TranslatedPaths == {<<"a">>, <<"b">>, <<"x">>, <<"a", "b">>, <<"x", "y">>}

TranslatedValues == {Scalar("v1"), Scalar("v2")}

InitPaths ==
    /\ NoMessenger
    /\ \E options \in PathTables :
          LET w == Connector(Empty, 1, OneDeep, 2, options)
          IN /\ ds = w.ds
             /\ datachanges = w.datachanges
             /\ connectors = w.connectors
             /\ deferred = w.deferred
             /\ connectorMessages = w.connectorMessages
             /\ changedata = w.changedata
             /\ emitted = w.emitted
             /\ validated = w.validated
             /\ error = w.error
             /\ watch = NoWatch

NextPaths ==
    \/ \E store \in {1, 2}, path \in TranslatedPaths, value \in TranslatedValues :
          watch.sets < MaxPathSets /\ Set(store, path, value)
    \/ RunDeferred

SpecPaths == InitPaths /\ [][NextPaths]_vars

\* ---------------------------------------------------------------- modes
MaxCalls == 4

Called(op, mode) == [watch EXCEPT !.op = op, !.calls = @ + 1, !.mode = mode]

Construct(mode, options) ==
    /\ watch.calls < MaxCalls
    /\ Len(connectors) < 2
    /\ CommitW(Connector(World, 1, mode, 2, options), Called("construct", mode))

TurnOn ==
    /\ watch.calls < MaxCalls
    /\ connectors # <<>>
    /\ CommitW(turnOn(World, 1), Called("turnOn", <<>>))

TurnOff ==
    /\ watch.calls < MaxCalls
    /\ connectors # <<>>
    /\ CommitW(turnOff(World, 1), Called("turnOff", <<>>))

ChangeMode(mode) ==
    /\ watch.calls < MaxCalls
    /\ connectors # <<>>
    /\ CommitW(changeMode(World, 1, mode), Called("changeMode", mode))

Modes ==
    {<<"-", ">">>, <<"<", "-">>, <<"<", "-", ">">>, <<"<", "<", "-", "-", ">", ">">>,
     <<"<", "<", "-", ">">>, <<"-">>, <<"<", ">">>, <<>>, <<"-", "<">>, <<">", "-">>}

Translation(from, to) ==
    [defined |-> TRUE,
     pathTranslation |-> [defined |-> TRUE, rules |-> <<[from |-> from, to |-> to]>>],
     dataTranslation |-> NoDataTranslation, dataValidation |-> NoValidation]

ModeOptions ==
    {WithoutOptions,
     Translation(<<"a">>, <<"x">>),
     Translation(<<"a", "*">>, <<"x", "*">>),
     Translation(<<"a", "*">>, <<"x">>),
     Translation(<<"a">>, <<"x", "*">>),
     Translation(<<"a", "*">>, <<"x", "*", "*">>),
     Rules(<<[from |-> <<"a">>, to |-> <<"x">>], [from |-> <<"b", "*">>, to |-> <<"y">>]>>),
     Rules(<<[from |-> <<"a", "*">>, to |-> <<"x", "*">>], [from |-> <<"b">>, to |-> <<"y">>]>>)}

InitMode == NoMessenger /\ NoConnector

NextMode ==
    \/ \E mode \in Modes, options \in ModeOptions : Construct(mode, options)
    \/ TurnOn
    \/ TurnOff
    \/ \E mode \in Modes : ChangeMode(mode)

SpecMode == InitMode /\ [][NextMode]_vars

\* ---------------------------------------------------------------- validation
Validating(forward, backward) ==
    [defined |-> TRUE, pathTranslation |-> [defined |-> FALSE, rules |-> <<>>],
     dataTranslation |-> NoDataTranslation,
     dataValidation |-> [defined |-> TRUE, forward |-> forward, backward |-> backward]]

Validators ==
    {<<"valid">>, <<"invalid">>, <<"never">>, <<"error">>, <<"valid", "invalid">>,
     <<"invalid", "valid">>, <<"error", "valid">>, <<"never", "valid">>,
     <<"invalid", "invalid">>}

ValidationOptions ==
    {Validating(<<[path |-> <<"a">>, validators |-> validators]>>,
                <<[path |-> <<"a", "b">>, validators |-> validators]>>) :
        validators \in Validators}

ValidPaths == {<<"a">>, <<"a", "b">>}

ValidValues == {Scalar("v1"), Scalar("v2")}

InitValid ==
    /\ NoMessenger
    /\ \E options \in ValidationOptions :
          LET w == Connector(Empty, 1, <<"<", "<", "-", ">", ">">>, 2, options)
          IN /\ ds = w.ds
             /\ datachanges = w.datachanges
             /\ connectors = w.connectors
             /\ deferred = w.deferred
             /\ connectorMessages = w.connectorMessages
             /\ changedata = w.changedata
             /\ emitted = w.emitted
             /\ validated = w.validated
             /\ error = w.error
             /\ watch = NoWatch

NextValid ==
    \/ \E store \in {1, 2}, path \in ValidPaths, value \in ValidValues :
          Set(store, path, value)
    \/ RunDeferred

SpecValid == InitValid /\ [][NextValid]_vars

\* ---------------------------------------------------------------- change of mode
MaxSwitchSets == 2

MaxSwitchCalls == 2

SwitchModes ==
    {<<"<", "<", "-">>, <<"<", "<", "-", ">", ">">>, <<"-", ">">>, <<"<", ">">>}

SwitchPaths == {<<"a">>, <<"a", "b">>}

SwitchValues == {Scalar("v1"), Scalar("v2")}

DeferChangeMode(mode) ==
    /\ watch.calls < MaxSwitchCalls
    /\ CommitW(deferChangeMode(World, 1, mode), Called("deferChangeMode", mode))

\* minder(m1, '<<-', m2)
InitSwitch ==
    /\ NoMessenger
    /\ LET w == Connector(Empty, 1, <<"<", "<", "-">>, 2, WithoutOptions)
       IN /\ ds = w.ds
          /\ datachanges = w.datachanges
          /\ connectors = w.connectors
          /\ deferred = w.deferred
          /\ connectorMessages = w.connectorMessages
          /\ changedata = w.changedata
          /\ emitted = w.emitted
          /\ validated = w.validated
          /\ error = w.error
          /\ watch = NoWatch

NextSwitch ==
    \/ \E store \in {1, 2}, path \in SwitchPaths, value \in SwitchValues :
          watch.sets < MaxSwitchSets /\ Set(store, path, value)
    \/ RunDeferred
    \/ \E mode \in SwitchModes : DeferChangeMode(mode)
    \/ \E mode \in SwitchModes : watch.calls < MaxSwitchCalls /\ ChangeMode(mode)

SpecSwitch == InitSwitch /\ [][NextSwitch]_vars

\* ---------------------------------------------------------------- destroy
MaxDestroySets == 2

Destroy ==
    /\ ~connectors[1]._destroyed
    /\ CommitW(destroy(World, 1), Called("destroy", <<>>))

InitDestroy ==
    /\ NoMessenger
    /\ LET w == Connector(Empty, 1, <<"<", "<", "-", ">", ">">>, 2, WithoutOptions)
       IN /\ ds = w.ds
          /\ datachanges = w.datachanges
          /\ connectors = w.connectors
          /\ deferred = w.deferred
          /\ connectorMessages = w.connectorMessages
          /\ changedata = w.changedata
          /\ emitted = w.emitted
          /\ validated = w.validated
          /\ error = w.error
          /\ watch = NoWatch

NextDestroy ==
    \/ \E store \in {1, 2}, path \in ConnPaths, value \in ConnValues :
          watch.sets < MaxDestroySets /\ Set(store, path, value)
    \/ RunDeferred
    \/ Destroy

SpecDestroy == InitDestroy /\ [][NextDestroy]_vars

\* ---------------------------------------------------------------- destroyed message
MaxDestroyedSubs == 2

MaxDestroyedCalls == 2

\* Every inline subscriber that is running returns, one after the other.
RECURSIVE returned(_)
returned(st) == IF st.stack = <<>> THEN st ELSE returned(return(st))

\* Messenger$destroy of a Messenger without a message source.
Messenger_destroy(st) == Messenger_offAll(st)

\* connector.destroy() of a connector whose _messenger is the Messenger of
\* the first part: 'destroyed' is posted to its subscribers, those called
\* inline return, and the Messenger is destroyed.
DestroyAndPost ==
    /\ ~connectors[1]._destroyed
    /\ stack = <<>>
    /\ LET w == destroy(World, 1)
           st == Messenger_destroy(
                     returned(postMessage(State, Str("destroyed"), "undefined", FALSE)))
       IN /\ ds' = w.ds
          /\ datachanges' = w.datachanges
          /\ connectors' = w.connectors
          /\ deferred' = w.deferred
          /\ connectorMessages' = w.connectorMessages
          /\ changedata' = w.changedata
          /\ emitted' = w.emitted
          /\ validated' = w.validated
          /\ error' = w.error
          /\ watch' = [watch EXCEPT !.op = "destroy"]
          /\ messageSubscribers' = st.messageSubscribers
          /\ patternMessageSubscribers' = st.patternMessageSubscribers
          /\ subscribers' = st.subscribers
          /\ timers' = st.timers
          /\ stack' = st.stack
          /\ posts' = st.posts
          /\ calls' = st.calls
          /\ notified' = st.notified
          /\ threw' = st.threw
          /\ UNCHANGED <<messageSource, ret>>

DestroyedModes == {<<"<", "<", "-">>, <<"<", "-", ">">>}

\* c = milo.minder(m1, '<<->>', m2)
InitDestroyed ==
    /\ messageSource = FALSE
    /\ messageSubscribers = <<>>
    /\ patternMessageSubscribers = <<>>
    /\ subscribers = <<>>
    /\ timers = <<>>
    /\ stack = <<>>
    /\ posts = <<>>
    /\ calls = <<>>
    /\ notified = <<>>
    /\ threw = FALSE
    /\ ret = Returned("none", FALSE)
    /\ LET w == Connector(Empty, 1, <<"<", "<", "-", ">", ">">>, 2, WithoutOptions)
       IN /\ ds = w.ds
          /\ datachanges = w.datachanges
          /\ connectors = w.connectors
          /\ deferred = w.deferred
          /\ connectorMessages = w.connectorMessages
          /\ changedata = w.changedata
          /\ emitted = w.emitted
          /\ validated = w.validated
          /\ error = w.error
          /\ watch = NoWatch

NextDestroyed ==
    \/ \E subscriber \in {Fn("f"), Fn("g")} :
          /\ Len(subscribers) < MaxDestroyedSubs
          /\ stack = <<>>
          /\ \/ On(String(<<"destroyed">>), subscriber)
             \/ OnSync(String(<<"destroyed">>), subscriber)
    \/ DestroyAndPost
    \/ Tick
    \/ Return
    \/ stack = <<>> /\ watch.sets < 1 /\ Set(1, <<"a">>, Scalar("v1"))
    \/ stack = <<>> /\ RunDeferred
    \/ stack = <<>> /\ watch.calls < MaxDestroyedCalls /\ TurnOn
    \/ \E mode \in DestroyedModes :
          stack = <<>> /\ watch.calls < MaxDestroyedCalls /\ ChangeMode(mode)

SpecDestroyed == InitDestroyed /\ [][NextDestroyed]_vars

\* ---------------------------------------------------------------- scheduled deliveries
MaxScheduledSubs == 2

ScheduledMessages == {String(<<"a">>), RegExp("/a/")}

ScheduledSubscribers == {Fn("f"), Fn("g")}

\* messenger.destroy()
DestroyMessenger == Commit(Messenger_destroy(State)) /\ ret' = Returned("destroy", FALSE)

\* Subscribers called from timers, which subscribe, unsubscribe and dispatch
\* between the ticks and as they are called.
NextScheduled ==
    \/ \E messages \in ScheduledMessages, subscriber \in ScheduledSubscribers :
          /\ Len(subscribers) < MaxScheduledSubs
          /\ \/ On(messages, subscriber)
             \/ Once(messages, subscriber)
             \/ OnAsync(messages, subscriber)
    \/ \E messages \in ScheduledMessages,
          subscriber \in ScheduledSubscribers \cup {NoSubscriber} :
          Off(messages, subscriber)
    \/ OffAll
    \/ DestroyMessenger
    \/ PostMessage(Str("a"), "d1")
    \/ Return
    \/ Tick

SpecScheduled == InitTables /\ [][NextScheduled]_vars

\* ---------------------------------------------------------------- writes and flushes
MaxWrites == 3

\* postMessageSync('changedata', { changes: changes }) without a callback.
NoCallback == [defined |-> FALSE, connector |-> 0, link |-> 0, fromDS |-> 0, toDS |-> 0]

\* store.postMessageSync('changedata', { changes: changes }) by the
\* application: one transaction.
Write(store, changes) ==
    /\ watch.sets < MaxWrites
    /\ CommitW(changeDataHandler(World, store, [changes |-> changes], NoCallback),
               [watch EXCEPT !.op = "write", !.sets = @ + 1, !.store = 0, !.origin = 0])

\* The tick runs the function deferred first, and the writes it makes
\* report an error when they complete.
RunDeferredFailing ==
    /\ deferred # <<>>
    /\ LET w == runDeferred([World EXCEPT !.deferred = Tail(@), !.failing = Stores],
                            Head(deferred))
       IN CommitW(w, [watch EXCEPT !.op = "runFailing",
                                   !.store = IF watch.ahead = 0 THEN 0 ELSE @,
                                   !.ahead = IF @ = 0 THEN 0 ELSE @ - 1,
                                   !.run = @ + 1])

WritePaths == {<<"a", "b">>, <<"x">>}

WriteValues == {Scalar("v1"), Scalar("v2")}

Sets(path, value) == [path |-> path, newValue |-> value]

WriteChanges ==
    {<<Sets(<<"x">>, Scalar("v1"))>>,
     <<Sets(<<"x">>, Scalar("v2"))>>,
     <<Sets(<<"a", "b">>, Scalar("v2"))>>,
     <<Sets(<<"x">>, Scalar("v1")), Sets(<<"a", "b">>, Scalar("v2")),
       Sets(<<"y">>, Scalar("v1"))>>}

\* m1 = new Model({ a: { b: 'v1' } }), m2 the same, connected '<<->>'.
InitWrite ==
    /\ NoMessenger
    /\ LET seeded == [s \in Stores |-> IF s = 3 THEN {} ELSE {<<<<"a", "b">>, "v1">>}]
           w == Connector([Empty EXCEPT !.ds = seeded], 1, <<"<", "<", "-", ">", ">">>, 2,
                          WithoutOptions)
       IN /\ ds = w.ds
          /\ datachanges = w.datachanges
          /\ connectors = w.connectors
          /\ deferred = w.deferred
          /\ connectorMessages = w.connectorMessages
          /\ changedata = w.changedata
          /\ emitted = w.emitted
          /\ validated = w.validated
          /\ error = w.error
          /\ watch = NoWatch

NextWrite ==
    \/ \E store \in {1, 2}, path \in WritePaths, value \in WriteValues :
          watch.sets < MaxWrites /\ Set(store, path, value)
    \/ \E changes \in WriteChanges : Write(1, changes)
    \/ RunDeferred
    \/ RunDeferredFailing

SpecWrite == InitWrite /\ [][NextWrite]_vars

\* ---------------------------------------------------------------- on and off
MaxOffSets == 2

MaxOffCalls == 3

OffModes == {<<"<", "<", "-", ">", ">">>, <<"-", ">">>, <<"<", "<", "<", "-">>, <<"<", ">">>}

OffPaths == {<<"a">>, <<"a", "b">>}

OffValues == {Scalar("v1"), Scalar("v2")}

\* c = milo.minder(m1, '<<->>', m2)
InitOff ==
    /\ NoMessenger
    /\ LET w == Connector(Empty, 1, <<"<", "<", "-", ">", ">">>, 2, WithoutOptions)
       IN /\ ds = w.ds
          /\ datachanges = w.datachanges
          /\ connectors = w.connectors
          /\ deferred = w.deferred
          /\ connectorMessages = w.connectorMessages
          /\ changedata = w.changedata
          /\ emitted = w.emitted
          /\ validated = w.validated
          /\ error = w.error
          /\ watch = NoWatch

NextOff ==
    \/ \E store \in {1, 2}, path \in OffPaths, value \in OffValues :
          watch.sets < MaxOffSets /\ Set(store, path, value)
    \/ RunDeferred
    \/ watch.calls < MaxOffCalls /\ TurnOff
    \/ watch.calls < MaxOffCalls /\ TurnOn
    \/ \E mode \in OffModes : watch.calls < MaxOffCalls /\ ChangeMode(mode)

SpecOff == InitOff /\ [][NextOff]_vars

\* ---------------------------------------------------------------- sets made during a write
MaxReentrantSets == 3

ReentrantModes == {<<"<", "<", "-", ">", ">">>, <<"-", ">", ">">>}

ReentrantPaths == {<<"a">>, <<"b">>}

ReentrantValues == {Scalar("v1"), Scalar("v2")}

\* c = milo.minder(m1, mode, m2) and m2.onSync('datachanges', ...) with a
\* subscriber that sets m1, attached before the connector or after it.
InitReentrant ==
    /\ NoMessenger
    /\ \E mode \in ReentrantModes, first \in BOOLEAN :
          LET subscribed == [Empty EXCEPT !.datachanges[2] = dsOnSync(@, Reaction(2, 1))]
              connected == Connector(IF first THEN subscribed ELSE Empty, 1, mode, 2,
                                     WithoutOptions)
              w == [connected EXCEPT !.datachanges[2] = dsOnSync(@, Reaction(2, 1))]
          IN /\ ds = w.ds
             /\ datachanges = w.datachanges
             /\ connectors = w.connectors
             /\ deferred = w.deferred
             /\ connectorMessages = w.connectorMessages
             /\ changedata = w.changedata
             /\ emitted = w.emitted
             /\ validated = w.validated
             /\ error = w.error
             /\ watch = NoWatch

NextReentrant ==
    \/ \E store \in {1, 2}, path \in ReentrantPaths, value \in ReentrantValues :
          watch.sets < MaxReentrantSets /\ Set(store, path, value)
    \/ RunDeferred

SpecReentrant == InitReentrant /\ [][NextReentrant]_vars

\* ---------------------------------------------------------------- data translation
MaxTranslateSets == 2

Translating(forward, backward) ==
    [defined |-> TRUE, pathTranslation |-> [defined |-> FALSE, rules |-> <<>>],
     dataTranslation |-> [defined |-> TRUE, forward |-> forward, backward |-> backward],
     dataValidation |-> NoValidation]

TranslationOptions ==
    {Translating(<<[path |-> <<"a">>, translate |-> "upper"]>>,
                 <<[path |-> <<"a">>, translate |-> "lower"]>>),
     Translating(<<[path |-> <<"a">>, translate |-> "upper"]>>, <<>>),
     Translating(<<[path |-> <<"a", "b">>, translate |-> "upper"]>>,
                 <<[path |-> <<"a">>, translate |-> "none"]>>),
     Translating(<<>>, <<[path |-> <<"a", "b">>, translate |-> "upper"]>>)}

TranslatePaths == {<<"a">>, <<"a", "b">>}

TranslateValues == {Scalar("v1"), Scalar("V2")}

\* new Connector(m1, '<<<->>>', m2, { dataTranslation: ... })
InitTranslate ==
    /\ NoMessenger
    /\ \E options \in TranslationOptions :
          LET w == Connector(Empty, 1, <<"<", "<", "<", "-", ">", ">", ">">>, 2, options)
          IN /\ ds = w.ds
             /\ datachanges = w.datachanges
             /\ connectors = w.connectors
             /\ deferred = w.deferred
             /\ connectorMessages = w.connectorMessages
             /\ changedata = w.changedata
             /\ emitted = w.emitted
             /\ validated = w.validated
             /\ error = w.error
             /\ watch = NoWatch

NextTranslate ==
    \/ \E store \in {1, 2}, path \in TranslatePaths, value \in TranslateValues :
          watch.sets < MaxTranslateSets /\ Set(store, path, value)
    \/ RunDeferred

SpecTranslate == InitTranslate /\ [][NextTranslate]_vars

\* ---------------------------------------------------------------- claims C11 to C20
TwoDeep == <<"<", "<", "-", ">", ">">>

\* One tick after a set made on stores that read the same with nothing
\* pending: every function deferred before a function deferred right after
\* the set has run, and nothing else has happened.
OneTickLater == watch.store # 0 /\ watch.ahead = 0 /\ connectors[1].mode = TwoDeep

\* C11 as stated: one tick after a single mutation of one of two stores
\* connected with '<<->>' the other store reads deep-equal to it.
C11_DeepEqualOneTickLater == OneTickLater => ds[1] = ds[2]

\* C11: one tick after a single mutation of one of two stores connected with
\* '<<->>' that read deep-equal before it, the other store reads deep-equal to
\* the mutated one, when the batch of the mutation starts with a change at
\* most one level deep (a path the subscription of depth two lets through).
C11_ShallowChangeDeepEqualOneTickLater ==
    OneTickLater /\ watch.shallow => ds[1] = ds[2]

C11_Witness ==
    /\ OneTickLater
    /\ watch.shallow
    /\ watch.op = "run"
    /\ ds[1] = ds[2]
    /\ ValueAt(ds[2], <<"a", "b">>) = Scalar("v1")
    /\ Len(changedata) = 2

\* The handlers a connector subscribed for the direction opposite to link.
ReverseHandlers(handlers, c, link) ==
    {i \in DOMAIN handlers : handlers[i].connector = c /\ handlers[i].link = 3 - link}

\* The reverse link was not subscribed to the target when the write began.
ReverseLinkDetached ==
    \A i \in DOMAIN changedata :
        changedata[i].callback.defined =>
            ReverseHandlers(changedata[i].subscribers,
                            changedata[i].callback.connector,
                            changedata[i].callback.link) = {}

\* The flush of a direction leaves the queue of the other direction as it
\* was and schedules nothing.
FlushEnqueuesNothing ==
    deferred # <<>> /\ watch'.op = "run" =>
        /\ connectors'[Head(deferred).connector][QueueName(3 - Head(deferred).link)]
             = connectors[Head(deferred).connector][QueueName(3 - Head(deferred).link)]
        /\ deferred' = Tail(deferred)

\* C12: while a bidirectional connector applies a 'changedata' write, its
\* reverse link is not subscribed to the target, and the batch the target
\* emits during the write is not enqueued in the queue of the opposite
\* direction.
C12_NoEcho == []ReverseLinkDetached /\ [][FlushEnqueuesNothing]_vars

\* A write that changed the target was applied and the reverse link is
\* subscribed again.
C12_Witness ==
    /\ watch.op = "run"
    /\ changedata # <<>>
    /\ changedata[Len(changedata)].callback.defined
    /\ changedata[Len(changedata)].store = 2
    /\ ds[2] # {}
    /\ ReverseHandlers(datachanges[2], 1, 2) # {}

\* C13: after the last external mutation of two stores connected by one
\* bidirectional connector, the flushes still scheduled are those that were
\* scheduled when the mutation returned and have not run yet, one for each
\* direction at most: no flush schedules another, and once the last of them
\* has run both queues are empty and no flush is scheduled.
C13_Quiescence ==
    /\ Len(deferred) = watch.ahead
    /\ Len(deferred) <= 2
    /\ deferred = <<>> => Quiescent

\* Both stores were set in one tick and both flushes have run.
C13_Witness ==
    /\ watch.op = "run"
    /\ watch.run = 2
    /\ Quiescent
    /\ Len(changedata) >= 2
    /\ ds[1] # {}

Arrows(n, ch) == [i \in 1..n |-> ch]

\* The grammar of a mode: left arrows, at least one dash, right arrows, not
\* without arrows, and with as many on both sides when both sides have some.
ValidMode(mode) ==
    \E l \in 0..Len(mode), d \in 1..(Len(mode) + 1), r \in 0..Len(mode) :
        /\ mode = Arrows(l, "<") \o Arrows(d, "-") \o Arrows(r, ">")
        /\ l # 0 \/ r # 0
        /\ l # 0 /\ r # 0 => l = r

DepthsValid ==
    \A c \in DOMAIN connectors :
        /\ ~(connectors[c].depth1 = 0 /\ connectors[c].depth2 = 0)
        /\ connectors[c].depth1 # 0 /\ connectors[c].depth2 # 0
              => connectors[c].depth1 = connectors[c].depth2

InvalidModeThrows ==
    watch'.op = "construct" /\ ~ValidMode(watch'.mode) =>
        error' # "" /\ connectors' = connectors

\* C14: the depths of a connector are never both zero and are equal when both
\* are nonzero, whatever changeMode calls succeeded or failed; constructing
\* with a mode outside the grammar or against these constraints throws and
\* makes no connector.
C14_Depths == []DepthsValid /\ [][InvalidModeThrows]_vars

\* changeMode with an invalid mode threw on a connector of depth two.
C14_Witness ==
    /\ watch.op = "changeMode"
    /\ ~ValidMode(watch.mode)
    /\ error # ""
    /\ connectors # <<>>
    /\ connectors[1].depth1 = 2
    /\ connectors[1].depth2 = 2

ConstructionFailed ==
    watch'.op = "construct" /\ error' # "" =>
        datachanges' = datachanges /\ connectors' = connectors

\* C15: a construction that fails with a configuration error leaves the
\* 'datachanges' subscribers of both endpoints as they were.
C15_FailedConstruction == [][ConstructionFailed]_vars

\* The constructor threw for a translation with a wildcard on one side.
C15_Witness ==
    /\ watch.op = "construct"
    /\ ValidMode(watch.mode)
    /\ error = "Invalid pattern translation"
    /\ Len(connectors) = 1
    /\ Len(datachanges[1]) = 1
    /\ Len(datachanges[2]) = 1

OneHandler ==
    \A s \in Stores : \A i, j \in DOMAIN datachanges[s] :
        /\ datachanges[s][i].connector = datachanges[s][j].connector
        /\ datachanges[s][i].link = datachanges[s][j].link
        => i = j

Idempotent ==
    \/ watch'.op = "turnOn" /\ connectors[1].isOn
    \/ watch'.op = "turnOff" /\ ~connectors[1].isOn
    => UNCHANGED <<ds, datachanges, connectors, deferred, connectorMessages, changedata,
                   emitted>>

\* C16: turnOn on a connector that is on and turnOff on one that is off
\* change nothing, no handler, link handle, isOn or event; an endpoint never
\* has two handlers of the same link.
C16_Idempotent == []OneHandler /\ [][Idempotent]_vars

\* turnOn was called on the connector the constructor had turned on.
C16_Witness ==
    /\ watch.op = "turnOn"
    /\ watch.calls = 2
    /\ connectors[1].isOn
    /\ connectors[1].depth1 = connectors[1].depth2
    /\ Len(datachanges[1]) = 1
    /\ Len(connectorMessages) = 1

RECURSIVE Concat(_)
Concat(seqs) == IF seqs = <<>> THEN <<>> ELSE Head(seqs) \o Concat(Tail(seqs))

\* What a change sets and where.
Strip(changes) ==
    [i \in DOMAIN changes |-> [path |-> changes[i].path, newValue |-> changes[i].newValue]]

\* The changes a link of a connector is due to carry to its target, in the
\* order the source posted them while the handler of the link was subscribed:
\* with a table that maps paths to themselves those the table names, without
\* a table those inside the depth of the mode.
Heard(c, link) ==
    LET this == connectors[c]
        depth == IF this.depth1 # 0 THEN this.depth1 ELSE this.depth2
        carried(change) ==
            IF this.translation THEN HasRule(this.pathTranslation2, change.path)
            ELSE Len(change.path) < depth
        batches ==
            SelectSeq(emitted,
                      LAMBDA e : /\ e.store = fromDS(this, link)
                                 /\ \E i \in DOMAIN e.subscribers :
                                       /\ e.subscribers[i].connector = c
                                       /\ e.subscribers[i].link = link)
    IN Concat([i \in DOMAIN batches |-> SelectSeq(batches[i].changes, carried)])

\* The changes the flushes of the link wrote to the target, in order.
Written(c, link) ==
    LET writes == SelectSeq(changedata,
                            LAMBDA e : e.callback.connector = c /\ e.callback.link = link)
    IN Concat([i \in DOMAIN writes |-> writes[i].changes])

Queued(c, link) ==
    LET batches == connectors[c][QueueName(link)]
    IN Concat([i \in DOMAIN batches |-> batches[i].changes])

\* C17: the changes written to the target of a link followed by those still
\* in its queue are the changes the source posted for it, in the order it
\* posted them: the order inside a batch, of the batches merged into a
\* transaction and of the transactions of a flush is the order of arrival.
C17_Order ==
    \A c \in DOMAIN connectors, link \in {1, 2} :
        Strip(Written(c, link) \o Queued(c, link)) = Strip(Heard(c, link))

\* A write to the third store carried the changes of two merged batches.
C17_Witness ==
    \E i \in DOMAIN changedata :
        /\ changedata[i].store = 3
        /\ changedata[i].callback.connector = 2
        /\ Len(changedata[i].changes) >= 3
        /\ changedata[i].changes[1].path = <<>>
        /\ changedata[i].changes[3].path = <<"x">>

\* Two ticks after a set of the first store made on stores that read the
\* same with nothing pending: two deferred functions have run since, or
\* fewer and none is left.
TwoTicksLater ==
    /\ watch.origin = 1
    /\ watch.op = "run"
    /\ watch.run = 2 \/ (watch.run < 2 /\ deferred = <<>>)

\* The batch the set posted.
SetBatch == emitted[watch.emittedAt + 1]

\* The first connector of the chain, of depth one, carries the change: its
\* table names the path, or it has no table and the path is the root.
FirstCarries(change) ==
    IF connectors[1].translation THEN HasRule(connectors[1].pathTranslation2, change.path)
    ELSE change.path = <<>>

\* The set posted several changes and those the first connector carries hold
\* every leaf of the first store.
SeveralChanges ==
    /\ Len(emitted) > watch.emittedAt
    /\ Len(SetBatch.changes) >= 2
    /\ \A l \in ds[1] : \E i \in DOMAIN SetBatch.changes :
          FirstCarries(SetBatch.changes[i]) /\ IsPrefix(SetBatch.changes[i].path, l[1])

\* Since the set the third store was written once, with every change the
\* second store posted inside the depth of the second connector, and reads
\* the same as the first store.
OneWrite ==
    LET writes == SelectSeq(SubSeq(changedata, watch.writtenAt + 1, Len(changedata)),
                            LAMBDA e : e.store = 3)
        posted == SelectSeq(SubSeq(emitted, watch.emittedAt + 1, Len(emitted)),
                            LAMBDA e : e.store = 2)
        carried == Concat([i \in DOMAIN posted |->
                              SelectSeq(posted[i].changes, LAMBDA ch : Len(ch.path) < 2)])
    IN /\ Len(writes) = 1
       /\ Strip(writes[1].changes) = Strip(carried)
       /\ ds[3] = ds[1]

\* C18 as stated: in the chain ds1 <-> ds2 <<->> ds3 a write on ds1 that
\* posts one batch of several changes reaches ds3 within two ticks as one
\* 'changedata' write with all the propagated changes, and ds3 then reads
\* deep-equal to ds1.
C18_OneWriteTwoTicksLater == TwoTicksLater /\ SeveralChanges => OneWrite

\* The stores held nothing before the set: its batch begins with the root
\* that had no value.
EmptyBefore ==
    /\ SetBatch.changes[1].path = <<>>
    /\ SetBatch.changes[1].oldValue = {}

\* C18: in the chain ds1 <-> ds2 <<->> ds3 with stores that hold no data, a
\* write on ds1 that posts one batch of several changes reaches ds3 within
\* two ticks as one 'changedata' write with all the propagated changes, and
\* ds3 then reads deep-equal to ds1.
C18_FirstWriteOneWriteTwoTicksLater ==
    TwoTicksLater /\ SeveralChanges /\ EmptyBefore => OneWrite

C18_Witness ==
    /\ TwoTicksLater
    /\ SeveralChanges
    /\ EmptyBefore
    /\ connectors[1].translation
    /\ ValueAt(ds[3], <<"x", "n">>) = Scalar("v2")
    /\ Len(changedata) = 2
    /\ Len(changedata[1].changes) = 3
    /\ Len(changedata[2].changes) = 3

\* The batches the handler of a link heard.
HeardBatches(c, link) ==
    SelectSeq(emitted,
              LAMBDA e : /\ e.store = fromDS(connectors[c], link)
                         /\ \E i \in DOMAIN e.subscribers :
                               /\ e.subscribers[i].connector = c
                               /\ e.subscribers[i].link = link)

\* C19 as stated: a change whose source path has an exact entry in the
\* table of its direction is enqueued with the target path of that entry,
\* whatever path the target is, the root included: the change is found, with
\* that path, among those written to the target or still queued.
C19_ExactEntryTarget ==
    \A c \in DOMAIN connectors, link \in {1, 2} :
        connectors[c].translation =>
            LET table == TablesOf(connectors[c], link).pathTranslation
                sent == Written(c, link) \o Queued(c, link)
            IN \A i \in DOMAIN HeardBatches(c, link) :
                  \A j \in DOMAIN HeardBatches(c, link)[i].changes :
                      LET change == HeardBatches(c, link)[i].changes[j]
                      IN HasRule(table, change.path) =>
                            \E k \in DOMAIN sent :
                                /\ sent[k].path = RuleOf(table, change.path).to
                                /\ sent[k].newValue = change.newValue

\* The configured table has an entry for the path: an exact one, or a
\* pattern the path matches.
HasEntry(c, path) ==
    \E i \in DOMAIN connectors[c].options.pathTranslation.rules :
        LET rule == connectors[c].options.pathTranslation.rules[i]
        IN IF indexOfStar(rule.from) = 0 THEN rule.from = path
           ELSE testPattern(rule.from, path)

\* C20 as stated: the path of a change of ds1 that has an entry in the
\* configured table, translated forward (ds1 to ds2) and the result
\* translated backward (ds2 to ds1), is the original path.
C20_RoundTrip ==
    \A c \in DOMAIN connectors : \A i \in DOMAIN HeardBatches(c, 2) :
        \A j \in DOMAIN HeardBatches(c, 2)[i].changes :
            LET path == HeardBatches(c, 2)[i].changes[j].path
                forward == translatePath(TablesOf(connectors[c], 2), <<>>, path)
                backward == translatePath(TablesOf(connectors[c], 1), <<>>, forward.path)
            IN connectors[c].translation /\ HasEntry(c, path) =>
                  /\ ~forward.undefined
                  /\ ~backward.undefined
                  /\ backward.path = path

\* ---------------------------------------------------------------- claims C21 to C30
\* The part of path from its first star on, <<>> when it has no star.
FromFirstStar(path) ==
    LET stars == {i \in DOMAIN path : path[i] = "*"}
    IN IF stars = {} THEN <<>>
       ELSE SubSeq(path, CHOOSE i \in stars : \A j \in stars : i <= j, Len(path))

\* An entry with a star on one side only, or with stars on both sides and
\* different texts from the first star on.
BadEntry(rule) == FromFirstStar(rule.from) # FromFirstStar(rule.to)

BadTable(options) ==
    /\ options.defined
    /\ options.pathTranslation.defined
    /\ \E i \in DOMAIN options.pathTranslation.rules :
           BadEntry(options.pathTranslation.rules[i])

ThrowsOnBadTable ==
    watch'.op = "construct" /\ ValidMode(watch'.mode)
        => \A options \in ModeOptions :
              Construct(watch'.mode, options)
                  => /\ (error' = "Invalid pattern translation") = BadTable(options)
                     /\ (error' = "") = ~BadTable(options)
                     /\ error' = "" => Len(connectors') = Len(connectors) + 1

Whole(changes) ==
    [i \in DOMAIN changes |->
        [path |-> changes[i].path, oldValue |-> changes[i].oldValue,
         newValue |-> changes[i].newValue]]

\* The changes the source of a link posted at the paths inside the depth of
\* the mode while the handler of the link was subscribed, validators or not.
Posted(c, link) ==
    LET this == connectors[c]
        depth == IF this.depth1 # 0 THEN this.depth1 ELSE this.depth2
        batches ==
            SelectSeq(emitted,
                      LAMBDA e : /\ e.store = (IF link = 1 THEN this.ds2 ELSE this.ds1)
                                 /\ \E i \in DOMAIN e.subscribers :
                                       /\ e.subscribers[i].connector = c
                                       /\ e.subscribers[i].link = link)
    IN Concat([i \in DOMAIN batches |->
                  SelectSeq(batches[i].changes, LAMBDA change : Len(change.path) < depth)])

\* Every batch a link heard is in its queue or was flushed: the queue is
\* empty only when as many batches were heard as flushed.
PendingOrWritten(c, link) ==
    Whole(Written(c, link) \o Queued(c, link)) = Whole(Posted(c, link))

HandlersOn(handlers, c) == SelectSeq(handlers, LAMBDA h : h.connector = c)

\* Connector c is on with exactly the handlers of its mode: one of link 1 on
\* ds2 when depth1 is not 0, one of link 2 on ds1 when depth2 is not 0, each
\* with the subscription pattern of the depth, and no other.
HandlersOfMode(c, this, handlers) ==
    LET depth == IF this.depth1 # 0 THEN this.depth1 ELSE this.depth2
        on1 == HandlersOn(handlers[this.ds1], c)
        on2 == HandlersOn(handlers[this.ds2], c)
    IN /\ this.isOn
       /\ on2 = (IF this.depth1 # 0 THEN <<this._link1>> ELSE <<>>)
       /\ on1 = (IF this.depth2 # 0 THEN <<this._link2>> ELSE <<>>)
       /\ this.depth1 # 0 => this._link1.link = 1 /\ Len(this._link1.subscriptionPattern) = depth - 1
       /\ this.depth2 # 0 => this._link2.link = 2 /\ Len(this._link2.subscriptionPattern) = depth - 1
       /\ this.depth1 = 0 => this._link1 = NoLink
       /\ this.depth2 = 0 => this._link2 = NoLink

\* A handler is subscribed to no store.
Detached(handler, handlers) ==
    \A store \in Stores : \A i \in DOMAIN handlers[store] : handlers[store][i] # handler

ModeChanged ==
    watch'.op = "changeMode" /\ ValidMode(watch'.mode)
        => /\ error' = ""
           /\ connectors'[1].mode = watch'.mode
           /\ connectors'[1].depth1 = Leading(watch'.mode, "<")
           /\ connectors'[1].depth2 = Len(watch'.mode) - Leading(watch'.mode, "<")
                                        - Leading(Drop(watch'.mode, Leading(watch'.mode, "<")), "-")
           /\ HandlersOfMode(1, connectors'[1], datachanges')
           /\ connectors[1]._link1 # NoLink => Detached(connectors[1]._link1, datachanges')
           /\ connectors[1]._link2 # NoLink => Detached(connectors[1]._link2, datachanges')
           /\ UNCHANGED <<ds, emitted, changedata, validated, deferred>>
           /\ connectors'[1]._changesQueue1 = connectors[1]._changesQueue1
           /\ connectors'[1]._changesQueue2 = connectors[1]._changesQueue2

\* C23: when changeMode returns for a mode that is accepted, the connector
\* is on with exactly the handlers of the new mode, one on ds2 when the new
\* depth1 is not 0 and one on ds1 when the new depth2 is not 0, the handlers
\* of the old mode are subscribed to neither store, and between its turnOff
\* and its turnOn no batch of 'datachanges' was handled: nothing was posted,
\* queued, scheduled or written.
C23_ChangeMode == [][ModeChanged]_vars

\* A connector that carried a change from ds2 to ds1 was changed to '->'
\* while a batch was waiting in its queue.
C23_Witness ==
    /\ watch.op = "changeMode"
    /\ connectors[1].mode = <<"-", ">">>
    /\ connectors[1]._changesQueue1 # <<>>
    /\ HandlersOn(datachanges[1], 1) # <<>>
    /\ HandlersOn(datachanges[2], 1) = <<>>

\* deferChangeMode changes nothing but what is scheduled: changeMode with the
\* mode goes behind whatever is scheduled already.
DeferredOnly ==
    watch'.op = "deferChangeMode"
        => /\ connectors' = connectors
           /\ datachanges' = datachanges
           /\ UNCHANGED <<ds, emitted, changedata, validated, connectorMessages>>
           /\ Len(deferred') = Len(deferred) + 1
           /\ SubSeq(deferred', 1, Len(deferred)) = deferred
           /\ deferred'[Len(deferred')].method = "changeMode"
           /\ deferred'[Len(deferred')].connector = 1
           /\ deferred'[Len(deferred')].mode = watch'.mode

\* A mutation is handled as the mode of the connector says when it is made:
\* its batch goes to the queue of link 1 when it is made on ds2 of a
\* connector that is on with depth1 not 0, to the queue of link 2 when made on
\* ds1 with depth2 not 0, and to no other queue.
HandledAsMode ==
    watch'.op = "set" /\ emitted' # emitted
        => LET this == connectors[1]
               store == emitted'[Len(emitted')].store
               more(link) == Len(connectors'[1][QueueName(link)]) - Len(this[QueueName(link)])
           IN /\ more(1) = (IF this.isOn /\ this.depth1 # 0 /\ store = this.ds2 THEN 1 ELSE 0)
              /\ more(2) = (IF this.isOn /\ this.depth2 # 0 /\ store = this.ds1 THEN 1 ELSE 0)

\* The tick changeMode was deferred to changes the mode as changeMode does.
ChangedByTick ==
    (watch'.op = "run" /\ Head(deferred).method = "changeMode"
        /\ ValidMode(Head(deferred).mode))
        => /\ connectors'[1].mode = Head(deferred).mode
           /\ HandlersOfMode(1, connectors'[1], datachanges')
           /\ deferred' = Tail(deferred)

\* C24: after deferChangeMode(mode) the mode, the depths and the handlers of
\* the connector are the old ones until the tick it scheduled, so that a
\* mutation made synchronously after the call is handled as the old mode
\* says; the tick changes the mode, and mutations made from then on are
\* handled as the new mode says.
C24_DeferChangeMode ==
    [][DeferredOnly]_vars /\ [][HandledAsMode]_vars /\ [][ChangedByTick]_vars

\* minder(m1, '<<-', m2).deferChangeMode('<<->>'): a mutation of m1 made
\* before the tick was heard by nobody, and one made after the tick is on its
\* way to m2.
C24_Witness ==
    /\ watch.calls = 1
    /\ watch.mode = <<"<", "<", "-", ">", ">">>
    /\ connectors[1].mode = <<"<", "<", "-", ">", ">">>
    /\ Len(emitted) = 2
    /\ emitted[1].store = 1 /\ emitted[1].subscribers = <<>>
    /\ emitted[2].store = 1 /\ emitted[2].subscribers # <<>>
    /\ connectors[1]._changesQueue2 # <<>>
    /\ \E i \in DOMAIN connectorMessages : connectorMessages[i].message = "turnedoff"

\* Once the connector is destroyed no step writes to a store and no step
\* raises an error.
NothingWrittenOnceDestroyed ==
    connectors[1]._destroyed => changedata' = changedata /\ error' = ""

\* C25: after destroy() no change made on either former endpoint, before or
\* after the call, is written to the other endpoint by the connector any
\* more, and a mutation of either former endpoint raises no error.
C25_DestroyStopsPropagation == [][NothingWrittenOnceDestroyed]_vars

\* A mutation made after destroy() is heard by no handler: nothing is
\* queued, scheduled or written for it, and no error is raised.
MutationOnceDestroyed ==
    connectors[1]._destroyed /\ watch'.op = "set"
        => /\ UNCHANGED <<connectors, deferred, changedata, datachanges>>
           /\ error' = ""
           /\ emitted' # emitted => emitted'[Len(emitted')].subscribers = <<>>

C25_AfterDestroyNotHeard == [][MutationOnceDestroyed]_vars

\* A store was changed after the connector was destroyed.
C25_Witness ==
    /\ connectors[1]._destroyed
    /\ watch.op = "set"
    /\ emitted # <<>>
    /\ emitted[Len(emitted)].subscribers = <<>>
    /\ ds[1] # ds[2]

\* The writes link made with a completion callback, in order.
WritesOf(c, link) ==
    SelectSeq(changedata,
              LAMBDA e : e.callback.defined /\ e.callback.connector = c
                         /\ e.callback.link = link)

\* The handler of the reverse link of link is subscribed to the target of
\* link.
ReverseAttached(c, link) ==
    LET this == connectors[c]
        target == IF link = 1 THEN this.ds1 ELSE this.ds2
    IN \E i \in DOMAIN datachanges[target] :
           /\ datachanges[target][i].connector = c
           /\ datachanges[target][i].link = 3 - link

Messages(log, c, message) ==
    SelectSeq(log, LAMBDA m : m.connector = c /\ m.message = message)

\* C26 as it is stated: once the completion callback of a write was called
\* with an error, the reverse link is detached from the target for the rest
\* of the life of the connector.
C26_DetachedForGood ==
    \A link \in {1, 2} :
        (\E i \in DOMAIN WritesOf(1, link) : WritesOf(1, link)[i].err)
            => ~ReverseAttached(1, link)

\* The reverse link of a link is detached exactly while the last write of
\* the link is one that reported an error.
DetachedSinceError ==
    \A link \in {1, 2} :
        LET writes == WritesOf(1, link)
        IN ReverseAttached(1, link) <=> (writes = <<>> \/ ~writes[Len(writes)].err)

\* A flush whose writes report an error: the reverse link is taken off for
\* every write and not put back, no 'changecompleted' is posted, every
\* transaction is written once and nothing is scheduled to write it again.
FailedWrites ==
    watch'.op = "runFailing" /\ Len(changedata') > Len(changedata)
        => LET link == Head(deferred).link
               writes == Len(changedata') - Len(changedata)
           IN /\ \A i \in (Len(changedata) + 1)..Len(changedata') : changedata'[i].err
              /\ Len(Messages(connectorMessages', 1, "changecompleted"))
                   = Len(Messages(connectorMessages, 1, "changecompleted"))
              /\ Len(Messages(connectorMessages', 1, "changestarted"))
                   = Len(Messages(connectorMessages, 1, "changestarted")) + writes
              /\ writes = Len(mergeTransactions(connectors[1][QueueName(link)]))
              /\ deferred' = Tail(deferred)
              /\ connectors'[1][QueueName(link)] = <<>>

\* C26: when the completion callback of a 'changedata' write is called with
\* an error, the connector does not put the reverse link back, posts no
\* 'changecompleted' and does not make the write again; the reverse link
\* stays detached from the target until a later write of the same link
\* completes without an error, which puts it back.
C26_WriteError == []DetachedSinceError /\ [][FailedWrites]_vars

\* A write to the second store reported an error and the handler that hears
\* the second store is detached.
C26_Witness ==
    /\ watch.op = "runFailing"
    /\ changedata # <<>>
    /\ changedata[Len(changedata)].err
    /\ changedata[Len(changedata)].store = 2
    /\ ~ReverseAttached(1, 2)
    /\ connectors[1]._link1 # NoLink

\* The step is a flush of a link.
Flush == watch'.op \in {"run", "runFailing"} /\ Head(deferred).method = "postChangeData"

\* The batches the flush of the step finds in its queue.
Flushed == connectors[Head(deferred).connector][QueueName(Head(deferred).link)]

\* The change lists of the writes the step makes, in order.
FlushWrites ==
    [i \in 1..(Len(changedata') - Len(changedata)) |->
        changedata'[Len(changedata) + i].changes]

\* The transactions as C27 states them: a run is made of consecutive
\* batches of the same transaction id, a batch without an id ends the run and
\* stands alone, a batch without changes adds nothing.
RECURSIVE RunsOfSameId(_)
RunsOfSameId(batches) ==
    IF batches = <<>> THEN [transactions |-> <<>>, id |-> 0]
    ELSE LET runs == RunsOfSameId(SubSeq(batches, 1, Len(batches) - 1))
             batch == batches[Len(batches)]
             n == Len(runs.transactions)
         IN IF batch.transaction = 0
            THEN [transactions |-> IF batch.changes = <<>> THEN runs.transactions
                                   ELSE Append(runs.transactions, batch.changes),
                  id |-> 0]
            ELSE IF batch.changes = <<>> THEN runs
            ELSE IF batch.transaction = runs.id
            THEN [runs EXCEPT !.transactions[n] = @ \o batch.changes]
            ELSE [transactions |-> Append(runs.transactions, batch.changes),
                  id |-> batch.transaction]

WritesAreRunsOfSameId == Flush => FlushWrites = RunsOfSameId(Flushed).transactions

\* C27: the transactions a flush writes are the change lists of the batches
\* without a transaction id, each alone, and the concatenations of the
\* maximal runs of consecutive batches of the same transaction id; batches
\* of different transaction ids are never in the same transaction.
C27_RunsOfSameId == [][WritesAreRunsOfSameId]_vars

\* What holds instead: a run is made of consecutive batches that have a
\* transaction id, whichever it is.
RECURSIVE RunsOfAnyId(_)
RunsOfAnyId(batches) ==
    IF batches = <<>> THEN [transactions |-> <<>>, running |-> FALSE]
    ELSE LET runs == RunsOfAnyId(SubSeq(batches, 1, Len(batches) - 1))
             batch == batches[Len(batches)]
             n == Len(runs.transactions)
         IN IF batch.transaction = 0
            THEN [transactions |-> IF batch.changes = <<>> THEN runs.transactions
                                   ELSE Append(runs.transactions, batch.changes),
                  running |-> FALSE]
            ELSE IF batch.changes = <<>> THEN runs
            ELSE IF runs.running
            THEN [runs EXCEPT !.transactions[n] = @ \o batch.changes]
            ELSE [transactions |-> Append(runs.transactions, batch.changes),
                  running |-> TRUE]

C27_RunsOfAnyId == [][Flush => FlushWrites = RunsOfAnyId(Flushed).transactions]_vars

\* One write of a flush carried the changes of two transactions.
C27_Witness ==
    /\ watch.op = "run"
    /\ Len(emitted) >= 2
    /\ emitted[1].transaction # 0 /\ emitted[2].transaction # 0
    /\ emitted[1].transaction # emitted[2].transaction
    /\ Len(changedata) = 3
    /\ changedata[3].callback.defined
    /\ Len(changedata[3].changes) = Len(emitted[1].changes) + Len(emitted[2].changes)

\* The number of changes in the first n of seqs.
RECURSIVE Total(_, _)
Total(seqs, n) == IF n = 0 THEN 0 ELSE Total(seqs, n - 1) + Len(seqs[n])

\* The write of the step that carries the first change of batch i of the
\* queue: the first whose changes reach past those of the batches before i.
WriteOfBatch(i) ==
    LET before == Total([k \in DOMAIN Flushed |-> Flushed[k].changes], i - 1)
    IN CHOOSE n \in DOMAIN FlushWrites :
           /\ Total(FlushWrites, n) > before
           /\ \A m \in 1..(n - 1) : Total(FlushWrites, m) <= before

\* No write of a flush has an empty change list, and the writes carry the
\* changes of the queue.
NoEmptyWrite ==
    Flush => /\ \A n \in DOMAIN FlushWrites : FlushWrites[n] # <<>>
             /\ Concat(FlushWrites) = Concat([k \in DOMAIN Flushed |-> Flushed[k].changes])

\* Two batches with changes and a transaction id, with nothing between them
\* but batches without changes: they are in one write unless one of the
\* batches between them has no transaction id.
SkippedBatches ==
    Flush =>
        \A i, j \in DOMAIN Flushed :
            (/\ i + 1 < j
             /\ Flushed[i].changes # <<>> /\ Flushed[i].transaction # 0
             /\ Flushed[j].changes # <<>> /\ Flushed[j].transaction # 0
             /\ \A k \in (i + 1)..(j - 1) : Flushed[k].changes = <<>>)
                => ((WriteOfBatch(i) = WriteOfBatch(j))
                      <=> \A k \in (i + 1)..(j - 1) : Flushed[k].transaction # 0)

\* A batch the link hears whose changes are all dropped is queued and, when
\* the queue was empty, a flush is scheduled for it.
DroppedStillScheduled ==
    (/\ watch'.op = "set"
     /\ Len(emitted') = Len(emitted) + 1
     /\ emitted'[Len(emitted')].store = 1
     /\ emitted'[Len(emitted')].subscribers # <<>>
     /\ \A i \in DOMAIN emitted'[Len(emitted')].changes :
           Len(emitted'[Len(emitted')].changes[i].path) >= 2)
        => /\ connectors'[1]._changesQueue2
                = Append(connectors[1]._changesQueue2, [changes |-> <<>>, transaction |-> 0])
           /\ connectors[1]._changesQueue2 = <<>>
                => Len(deferred') = Len(deferred) + 1

\* C28: a connector makes no 'changedata' write with an empty change list: a
\* batch whose changes were all dropped still schedules a flush, and the
\* flush skips it; a skipped batch without a transaction id ends the running
\* transaction, a skipped batch with a transaction id does not.
C28_NoEmptyWrite ==
    [][NoEmptyWrite]_vars /\ [][SkippedBatches]_vars /\ [][DroppedStillScheduled]_vars

\* A flush found a transaction, a dropped batch without a transaction id
\* and another transaction in its queue, and made two writes.
C28_Witness ==
    /\ watch.op = "run"
    /\ Len(emitted) >= 3
    /\ emitted[1].store = 1 /\ emitted[1].transaction # 0
    /\ emitted[2].store = 1 /\ emitted[2].transaction = 0
    /\ \A i \in DOMAIN emitted[2].changes : Len(emitted[2].changes[i].path) >= 2
    /\ emitted[3].store = 1 /\ emitted[3].transaction # 0
    /\ Len(WritesOf(1, 2)) = 2
    /\ connectors[1]._changesQueue2 = <<>>

\* The flushes of a link that are scheduled and have not run.
PendingFlushes(scheduled, c, link) ==
    SelectSeq(scheduled,
              LAMBDA func : /\ func.method = "postChangeData"
                            /\ func.connector = c /\ func.link = link)

\* The queue of a link holds batches exactly when one flush of the link is
\* pending, and none is pending when it is empty.
OneFlushPerQueue ==
    \A c \in DOMAIN connectors, link \in {1, 2} :
        Len(PendingFlushes(deferred, c, link))
            = (IF connectors[c][QueueName(link)] = <<>> THEN 0 ELSE 1)

\* A step that appends batches to a queue schedules one flush of the link
\* when the queue was empty and none when it was not.
ScheduledOnFirstBatch ==
    \A c \in DOMAIN connectors, link \in {1, 2} :
        LET queue == connectors[c][QueueName(link)]
            queue2 == connectors'[c][QueueName(link)]
        IN Len(queue2) > Len(queue)
              => /\ SubSeq(queue2, 1, Len(queue)) = queue
                 /\ Len(PendingFlushes(deferred', c, link))
                      = Len(PendingFlushes(deferred, c, link))
                          + (IF queue = <<>> THEN 1 ELSE 0)

\* A flush empties its queue and writes the changes of every batch it held.
FlushTakesAll ==
    Flush => /\ connectors'[Head(deferred).connector][QueueName(Head(deferred).link)] = <<>>
             /\ Strip(Concat(FlushWrites))
                  = Strip(Concat([k \in DOMAIN Flushed |-> Flushed[k].changes]))

\* C29: for each direction of a connector a flush is scheduled exactly when
\* a batch is appended to an empty queue, and a flush takes every batch out
\* of the queue before it writes: the queue holds batches exactly when one
\* flush of the direction is pending, and the batches of one tick are
\* written by one flush.
C29_OneFlush == []OneFlushPerQueue /\ [][ScheduledOnFirstBatch]_vars /\ [][FlushTakesAll]_vars

\* Two batches of one tick were written by the one flush scheduled for the
\* first of them.
C29_Witness ==
    /\ watch.op = "run"
    /\ watch.sets = 2
    /\ emitted[1].store = 2 /\ emitted[1].subscribers # <<>>
    /\ emitted[2].store = 2 /\ emitted[2].subscribers # <<>>
    /\ Len(WritesOf(1, 1)) + Len(SelectSeq(changedata, LAMBDA e : ~e.callback.defined)) = 2
    /\ deferred = <<>>
    /\ connectors[1]._changesQueue1 = <<>>

\* The 'changestarted' and 'changecompleted' messages of a connector, in
\* the order it posted them.
ChangeEvents(c) ==
    SelectSeq(connectorMessages,
              LAMBDA m : m.connector = c /\ m.message \in {"changestarted", "changecompleted"})

CallbackWrites(c) ==
    SelectSeq(changedata, LAMBDA e : e.callback.defined /\ e.callback.connector = c)

\* The events a write brings about: 'changestarted' with the source and the
\* target of its link, followed by 'changecompleted' with the same source
\* and target unless the write reported an error.
EventsOfWrite(write) ==
    LET data(message) == [connector |-> write.callback.connector, message |-> message,
                          source |-> write.callback.fromDS, target |-> write.store]
    IN IF write.err THEN <<data("changestarted")>>
       ELSE <<data("changestarted"), data("changecompleted")>>

\* The change events of a connector are those of its writes, write by write.
EventsFollowWrites ==
    LET writes == CallbackWrites(1)
    IN /\ ChangeEvents(1) = Concat([i \in DOMAIN writes |-> EventsOfWrite(writes[i])])
       /\ \A i \in DOMAIN writes :
             /\ writes[i].callback.fromDS # writes[i].store
             /\ {writes[i].callback.fromDS, writes[i].store}
                  = {connectors[1].ds1, connectors[1].ds2}

\* The handler of the reverse link is subscribed to the target once when
\* the last write of the link completed, and never more than once.
ReattachedOnce ==
    \A link \in {1, 2} :
        LET writes == WritesOf(1, link)
            target == IF link = 1 THEN connectors[1].ds1 ELSE connectors[1].ds2
            subscribed == SelectSeq(datachanges[target],
                                    LAMBDA h : h.connector = 1 /\ h.link = 3 - link)
        IN /\ Len(subscribed) <= 1
           /\ writes # <<>> /\ ~writes[Len(writes)].err
                => subscribed = <<connectors[1][reverseLink(link)]>>

Stale ==
    connectors[Head(deferred).connector][LinkName(Head(deferred).link)].id # Head(deferred).id

\* The changes of the batches a flush finds in its queue, in order.
FlushedChanges == Concat([k \in DOMAIN Flushed |-> Flushed[k].changes])

\* A stale flush runs as any other: it empties the queue and writes the
\* changes of every batch it held, in order, to the store that was the target
\* when the handler was attached, and the store holds them afterwards.
StaleFlushWrites ==
    (watch'.op = "run" /\ Head(deferred).method = "postChangeData" /\ Stale)
        => LET func == Head(deferred)
           IN /\ connectors'[func.connector][QueueName(func.link)] = <<>>
              /\ Whole(Concat(FlushWrites)) = Whole(FlushedChanges)
              /\ \A i \in (Len(changedata) + 1)..Len(changedata') :
                    changedata'[i].store = func.toDS
              /\ ds'[func.toDS] = written(ds[func.toDS], FlushedChanges)
              /\ connectors'[func.connector].isOn = connectors[func.connector].isOn
              /\ error' = ""

\* C31: a flush that was scheduled before turnOff, or before the turnOff
\* inside changeMode, is not cancelled: the tick still writes every batch
\* that was queued to the target, although the connector is off.
C31_StaleFlush == [][StaleFlushWrites]_vars

\* The connector was turned off with a batch in a queue, and the tick wrote
\* the batch to the other store although the connector is off.
C31_Witness ==
    /\ watch.op = "run"
    /\ ~connectors[1].isOn
    /\ \E i \in DOMAIN connectorMessages : connectorMessages[i].message = "turnedoff"
    /\ Len(changedata) = 1
    /\ ~changedata[1].callback.defined
    /\ ds[1] = ds[2] /\ ds[1] # {}

\* The (callback, context) pair of the subscriber has one registration among
\* the lists the dispatch found.
RegisteredOnce(p, k) ==
    \A l \in DOMAIN Walked(p) : Identity(Walked(p)[l]) = Identity(Walked(p)[k]) => l = k

\* C32: the subscribers of a dispatch are those registered when it starts:
\* each of them is invoked exactly once by the dispatch, also when an inline
\* subscriber invoked earlier unsubscribes itself or another one, and a
\* subscriber added while the dispatch runs is not invoked by it.
C32_SnapshotAtStart ==
    \A p \in DOMAIN posts :
        posts[p].status = "returned"
        => /\ \A k \in DOMAIN Walked(p) :
                 RegisteredOnce(p, k)
                 => Cardinality(DeliveriesOf(p, Identity(Walked(p)[k]))) = 1
           /\ \A i \in DOMAIN Deliveries :
                 Deliveries[i].post = p
                 => \E k \in DOMAIN Walked(p) :
                       Identity(Walked(p)[k])
                         = <<Deliveries[i].subscriber, Deliveries[i].context>>

\* The change has a target path as C33 states it: with a table, its path has
\* an exact entry or matches a pattern rule of the direction; without a
\* table, its path is inside the depth of the mode.
HasTargetPath(c, link, path) ==
    LET this == connectors[c]
        tables == TablesOf(this, link)
        depth == IF this.depth1 # 0 THEN this.depth1 ELSE this.depth2
    IN IF this.translation
       THEN \/ HasRule(tables.pathTranslation, path)
            \/ \E i \in DOMAIN tables.patternTranslation :
                   testPattern(tables.patternTranslation[i].fromPattern, path)
       ELSE Len(path) <= depth - 1

\* The set of the step posted a batch that the handler of link 2 heard: the
\* batch appended to the queue holds the changes that have a target path, in
\* the order and with the values they were posted with, and nothing is
\* thrown.
DroppedAlone(entitled(_)) ==
    (/\ watch'.op = "set"
     /\ Len(emitted') = Len(emitted) + 1
     /\ emitted'[Len(emitted')].store = 1
     /\ emitted'[Len(emitted')].subscribers # <<>>)
        => LET kept == SelectSeq(emitted'[Len(emitted')].changes, entitled)
               queue == connectors'[1]._changesQueue2
               sent == queue[Len(queue)].changes
           IN /\ Len(queue) = Len(connectors[1]._changesQueue2) + 1
              /\ [i \in DOMAIN sent |-> [oldValue |-> sent[i].oldValue,
                                         newValue |-> sent[i].newValue]]
                   = [i \in DOMAIN kept |-> [oldValue |-> kept[i].oldValue,
                                            newValue |-> kept[i].newValue]]
              /\ error' = ""

\* C33: a change that has no target path is dropped alone and silently: it
\* is left out of the enqueued batch without an error, and the other changes
\* of the batch are enqueued in their order.
C33_DroppedAlone ==
    [][DroppedAlone(LAMBDA change : HasTargetPath(1, 2, change.path))]_vars

\* The same with an exact entry whose target is the root counted as no
\* entry.
C33_DroppedAloneButRoot ==
    [][DroppedAlone(LAMBDA change :
          /\ HasTargetPath(1, 2, change.path)
          /\ ~(/\ HasRule(connectors[1].pathTranslation2, change.path)
               /\ RuleOf(connectors[1].pathTranslation2, change.path).to = <<>>
               /\ \A i \in DOMAIN connectors[1].patternTranslation2 :
                     ~testPattern(connectors[1].patternTranslation2[i].fromPattern,
                                  change.path)))]_vars

\* The validators of the first connector for a path of the source of a link.
ValidatorsAt(link, path) ==
    LET dataValidation == ValidationOf(connectors[1], link)
        at == {i \in DOMAIN dataValidation : dataValidation[i].path = path}
    IN IF at = {} THEN <<>> ELSE dataValidation[CHOOSE i \in at : TRUE].validators

\* The set of the step posted a batch on the first store that the handler
\* of link 2 heard, with a change at '.a', a path with validators that all
\* report a result: one 'validated' message is posted on the first store for
\* the path, a failure when some validator reported valid=false and a success
\* otherwise.
OneValidated ==
    (/\ watch'.op = "set"
     /\ Len(emitted') = Len(emitted) + 1
     /\ emitted'[Len(emitted')].store = 1
     /\ emitted'[Len(emitted')].subscribers # <<>>
     /\ \E i \in DOMAIN emitted'[Len(emitted')].changes :
           emitted'[Len(emitted')].changes[i].path = <<"a">>
     /\ ValidatorsAt(2, <<"a">>) # <<>>
     /\ \A i \in DOMAIN ValidatorsAt(2, <<"a">>) :
           ValidatorsAt(2, <<"a">>)[i] \in {"valid", "invalid"})
        => validated' = Append(validated,
                               [store |-> 1, path |-> <<"a">>,
                                valid |-> \A i \in DOMAIN ValidatorsAt(2, <<"a">>) :
                                             ValidatorsAt(2, <<"a">>)[i] = "valid"])

\* C34: for each change whose source path has validators exactly one
\* 'validated' message is posted on the source: the first result with
\* valid=false, or one success once every validator reported success; no
\* success is posted after a failure and no second failure after the first.
C34_OneValidated == [][OneValidated]_vars

\* The value a change of the source of a link is due to carry: the function
\* the configured table has for the path under the direction of the link,
\* '->' for the link from ds1 to ds2 and '<-' for the other, applied to the
\* value; the value as it is when the table has no function for the path.
Carried(link, path, value) ==
    LET configured == connectors[1].options.dataTranslation
        table == IF link = 2 THEN configured.forward ELSE configured.backward
        at == {i \in DOMAIN table : table[i].path = path /\ table[i].translate # "none"}
    IN IF at = {} THEN value
       ELSE translate(table[CHOOSE i \in at : TRUE].translate, value)

\* The set of the step posted a batch that a handler heard: the changes of
\* the batch appended to the queue of the link carry the values the table of
\* the direction makes of the values posted.
TranslatedAsTable ==
    (/\ watch'.op = "set"
     /\ Len(emitted') = Len(emitted) + 1
     /\ emitted'[Len(emitted')].subscribers # <<>>)
        => LET batch == emitted'[Len(emitted')]
               link == IF batch.store = connectors[1].ds1 THEN 2 ELSE 1
               queue == connectors'[1][QueueName(link)]
               sent == queue[Len(queue)].changes
           IN /\ Len(queue) = Len(connectors[1][QueueName(link)]) + 1
              /\ Whole(sent)
                   = [i \in DOMAIN batch.changes |->
                        [path |-> batch.changes[i].path,
                         oldValue |-> Carried(link, batch.changes[i].path,
                                              batch.changes[i].oldValue),
                         newValue |-> Carried(link, batch.changes[i].path,
                                              batch.changes[i].newValue)]]

\* C35: when a data translation function is registered for the source path
\* of a change in the direction of the change, the enqueued change carries
\* the function applied to the old value and to the new value; when none is
\* registered both values are forwarded as they are; the function of the
\* other direction is never applied.
C35_DataTranslation == [][TranslatedAsTable]_vars

\* With "upper" for '.a' from ds1 to ds2 and "lower" for '.a' from ds2 to
\* ds1, a change of the first store to 'v1' at '.a' was written to the second
\* as 'V1', and the second store was then set to 'V2' at '.a': that change is
\* queued for the first store from 'v1' to 'v2'.
C35_Witness ==
    /\ watch.op = "set"
    /\ connectors[1].dataTranslation1 = <<[path |-> <<"a">>, translate |-> "lower"]>>
    /\ connectors[1].dataTranslation2 = <<[path |-> <<"a">>, translate |-> "upper"]>>
    /\ \E i \in DOMAIN changedata :
          /\ changedata[i].store = 2
          /\ \E j \in DOMAIN changedata[i].changes :
                /\ changedata[i].changes[j].path = <<"a">>
                /\ changedata[i].changes[j].newValue = Scalar("V1")
    /\ \E i \in DOMAIN connectors[1]._changesQueue1 :
          \E j \in DOMAIN connectors[1]._changesQueue1[i].changes :
              LET change == connectors[1]._changesQueue1[i].changes[j]
              IN /\ change.path = <<"a">>
                 /\ change.oldValue = Scalar("v1")
                 /\ change.newValue = Scalar("v2")

\* The dispatches of 'destroyed'.
DestroyedPosts == {p \in DOMAIN posts : posts[p].message = Str("destroyed")}

\* Once the connector is destroyed it is off, neither store has a handler of
\* it, its endpoints are removed, and each subscriber that was registered for
\* 'destroyed' when destroy() was called has received the message once or is
\* due to receive it once from a timer; no other subscriber receives it.
Destroyed ==
    connectors[1]._destroyed
        => /\ ~connectors[1].isOn
           /\ connectors[1].ds1 = 0 /\ connectors[1].ds2 = 0
           /\ connectors[1]._link1 = NoLink /\ connectors[1]._link2 = NoLink
           /\ \A store \in Stores : HandlersOn(datachanges[store], 1) = <<>>
           /\ Cardinality(DestroyedPosts) = 1
           /\ \A p \in DestroyedPosts :
                 /\ \A k \in DOMAIN posts[p].list :
                       Cardinality({i \in DOMAIN Deliveries :
                                       Deliveries[i].sid = posts[p].list[k]}) = 1
                 /\ \A i \in DOMAIN Deliveries :
                       /\ Deliveries[i].post = p
                       /\ \E k \in DOMAIN posts[p].list :
                             posts[p].list[k] = Deliveries[i].sid
           /\ stack = <<>> /\ timers = <<>>
                 => \A p \in DestroyedPosts : Len(calls) = Len(posts[p].list)

\* Until destroy() is called no subscriber receives 'destroyed'.
NotDestroyed == ~connectors[1]._destroyed => calls = <<>> /\ timers = <<>>

\* turnOn and changeMode of a destroyed connector throw and attach nothing.
NoUseOnceDestroyed ==
    (connectors[1]._destroyed /\ watch'.op \in {"turnOn", "changeMode"})
        => /\ error' = "TypeError"
           /\ datachanges' = datachanges
           /\ ~connectors'[1].isOn

\* C36: after destroy() the connector is off, no handler of it is attached
\* to either former endpoint, ds1 and ds2 are removed and the destroyed flag
\* is set; a subscriber registered for 'destroyed' before the call receives
\* the message exactly once; no later turnOn or changeMode attaches a handler
\* to a former endpoint again.
C36_Destroyed == []Destroyed /\ []NotDestroyed /\ [][NoUseOnceDestroyed]_vars

\* The connector was destroyed with one inline and one deferred subscriber
\* of 'destroyed', both have been called, and changeMode was called since.
C36_Witness ==
    /\ connectors[1]._destroyed
    /\ watch.op = "changeMode"
    /\ Len(calls) = 2
    /\ calls[1].inline /\ ~calls[2].inline
    /\ stack = <<>> /\ timers = <<>>
    /\ messageSubscribers = <<>>

\* The batches the source of the flush that runs posts to the handler of its
\* link during the step.
HeardDuring ==
    LET func == Head(deferred)
    IN SelectSeq(SubSeq(emitted', Len(emitted) + 1, Len(emitted')),
                 LAMBDA e : /\ e.store = func.fromDS
                            /\ \E i \in DOMAIN e.subscribers :
                                  /\ e.subscribers[i].connector = func.connector
                                  /\ e.subscribers[i].link = func.link)

\* A flush writes the batches its queue held when it started and no other;
\* the batches its source posts while it writes are in the queue when it
\* ends, in order, with one flush of the direction scheduled for them.
ReentrantQueued ==
    (watch'.op = "run" /\ Head(deferred).method = "postChangeData")
        => LET func == Head(deferred)
               queue == connectors'[func.connector][QueueName(func.link)]
               depth == IF connectors[func.connector].depth1 # 0
                        THEN connectors[func.connector].depth1
                        ELSE connectors[func.connector].depth2
               carried(change) == Len(change.path) < depth
           IN /\ Whole(Concat(FlushWrites)) = Whole(FlushedChanges)
              /\ Len(queue) = Len(HeardDuring)
              /\ \A k \in DOMAIN queue :
                    /\ Whole(queue[k].changes)
                          = Whole(SelectSeq(HeardDuring[k].changes, carried))
                    /\ queue[k].transaction = HeardDuring[k].transaction
              /\ Len(PendingFlushes(deferred', func.connector, func.link))
                    = (IF HeardDuring = <<>> THEN 0 ELSE 1)

\* Every change the source posted for a link was written once or is queued
\* once, and nothing else was.
WrittenOrQueuedOnce ==
    \A c \in DOMAIN connectors, link \in {1, 2} :
        /\ Strip(Written(c, link) \o Queued(c, link)) = Strip(Heard(c, link))
        /\ Len(PendingFlushes(deferred, c, link)) <= 1

\* C37: a batch the source posts while a flush of the same direction is
\* writing, a set made by an inline subscriber during the 'changedata' write,
\* is not lost and not applied twice: it is queued after the queue was
\* emptied, a new flush is scheduled for it, and that flush writes it once.
C37_Reentrant == [][ReentrantQueued]_vars /\ []WrittenOrQueuedOnce

\* One set of 'b' on the first store: the flush wrote it to the second, the
\* subscriber there set 'a' of the first during the write, and a second flush
\* wrote that change; nothing is pending.
C37_Witness ==
    /\ watch.op = "run"
    /\ watch.sets = 1
    /\ Len(emitted) >= 3
    /\ emitted[1].store = 1
    /\ emitted[1].changes[Len(emitted[1].changes)].path = <<"b">>
    /\ emitted[2].store = 2 /\ emitted[2].transaction = 1
    /\ emitted[3].store = 1
    /\ emitted[3].changes[Len(emitted[3].changes)].path = ReactionPath
    /\ Len(changedata) = 2
    /\ changedata[1].callback.link = 2
    /\ changedata[2].callback.link = 2
    /\ Strip(changedata[2].changes) = Strip(emitted[3].changes)
    /\ ValueAt(ds[2], ReactionPath) = ReactionValue
    /\ deferred = <<>>
    /\ connectors[1]._changesQueue2 = <<>>

\* changeMode with a mode that is not accepted throws with the connector
\* off, no handler of it on either store, and the mode and the depths it had.
ThrowsWhenOff ==
    (watch'.op = "changeMode" /\ ~ValidMode(watch'.mode))
        => /\ error' = "invalid Connector mode"
           /\ ~connectors'[1].isOn
           /\ connectors'[1]._link1 = NoLink
           /\ connectors'[1]._link2 = NoLink
           /\ \A store \in Stores : HandlersOn(datachanges'[store], 1) = <<>>
           /\ connectors'[1].mode = connectors[1].mode
           /\ connectors'[1].depth1 = connectors[1].depth1
           /\ connectors'[1].depth2 = connectors[1].depth2

\* turnOn right after it attaches the handlers of the mode the connector
\* had before.
PreviousModeRestored ==
    (watch.op = "changeMode" /\ ~ValidMode(watch.mode) /\ watch'.op = "turnOn")
        => /\ error' = ""
           /\ connectors'[1].mode = connectors[1].mode
           /\ connectors'[1].depth1 = connectors[1].depth1
           /\ connectors'[1].depth2 = connectors[1].depth2
           /\ HandlersOfMode(1, connectors'[1], datachanges')

\* C38: changeMode with an invalid mode throws after the connector was
\* turned off: the connector is off, no handler is attached, and mode, depth1
\* and depth2 are those of the previous mode, so that a following turnOn
\* restores the previous links.
C38_InvalidMode == [][ThrowsWhenOff]_vars /\ [][PreviousModeRestored]_vars

\* changeMode('<>') has thrown on a connector that had been changed to '->'
\* and was on with a batch in its queue.
C38_Witness ==
    /\ watch.op = "changeMode"
    /\ watch.mode = <<"<", ">">>
    /\ error = "invalid Connector mode"
    /\ connectors[1].mode = <<"-", ">">>
    /\ ~connectors[1].isOn
    /\ connectors[1]._changesQueue2 # <<>>
    /\ connectorMessages[Len(connectorMessages)].message = "turnedoff"
    /\ Len(connectorMessages) = 4

\* Each endpoint has the handler of the direction that starts at it, once,
\* when the connector is on and the depth of that direction is not 0, and no
\* handler of the connector otherwise.
HandlersAsMode ==
    \A c \in DOMAIN connectors :
        LET this == connectors[c]
        IN /\ HandlersOn(datachanges[this.ds1], c)
                = (IF this.isOn /\ this.depth2 # 0 THEN <<this._link2>> ELSE <<>>)
           /\ HandlersOn(datachanges[this.ds2], c)
                = (IF this.isOn /\ this.depth1 # 0 THEN <<this._link1>> ELSE <<>>)
           /\ \A store \in Stores \ {this.ds1, this.ds2} :
                 HandlersOn(datachanges[store], c) = <<>>

\* No batch was posted to two handlers of a connector.
HeardOncePerConnector ==
    \A i \in DOMAIN emitted : \A c \in DOMAIN connectors :
        Len(HandlersOn(emitted[i].subscribers, c)) <= 1

\* The batch of a set goes to one queue of the connector at most, once.
QueuedOncePerConnector ==
    watch'.op = "set"
        => \A c \in DOMAIN connectors :
              (Len(connectors'[c]._changesQueue1) - Len(connectors[c]._changesQueue1))
                + (Len(connectors'[c]._changesQueue2) - Len(connectors[c]._changesQueue2))
                  <= Len(emitted') - Len(emitted)

\* C39: between ticks, after any turnOn, turnOff, changeMode and flushes,
\* the 'datachanges' subscribers of each endpoint hold a handler of the
\* connector at most once, and hold it exactly when the connector is on and
\* the depth of the direction that starts at the endpoint is not 0; every
\* batch is queued at most once per connector.
C39_Handlers ==
    []HandlersAsMode /\ []HeardOncePerConnector /\ [][QueuedOncePerConnector]_vars

\* A flush scheduled by the handler of an earlier turnOn ran after the
\* connector was linked again, detached and reattached the reverse handler of
\* the new links, and each endpoint has one handler.
C39_Witness ==
    /\ watch.op = "run"
    /\ connectors[1].isOn
    /\ connectors[1].depth1 # 0 /\ connectors[1].depth2 # 0
    /\ Len(emitted) >= 1
    /\ emitted[1].store = 1
    /\ HandlersOn(emitted[1].subscribers, 1) # <<>>
    /\ HandlersOn(emitted[1].subscribers, 1)[1].id # connectors[1]._link2.id
    /\ Len(changedata) = 1
    /\ changedata[1].callback.defined
    /\ connectorMessages[Len(connectorMessages)].message = "changecompleted"
    /\ Len(datachanges[1]) = 1 /\ Len(datachanges[2]) = 1

\* off, offAll and destroy leave the timers as they are.
TimersKept ==
    /\ \A messages \in ScheduledMessages,
          subscriber \in ScheduledSubscribers \cup {NoSubscriber} :
          Off(messages, subscriber) => timers' = timers
    /\ OffAll => timers' = timers
    /\ DestroyMessenger => timers' = timers

\* The tick takes the first timer and invokes its subscriber with the
\* message and the data of the dispatch, registered or not.
TimerInvokes ==
    Len(timers') < Len(timers)
        => /\ timers' = Tail(timers)
           /\ calls' = Append(calls, Head(timers))
           /\ Len(stack') = 1 /\ stack'[1].kind = "timer" /\ stack'[1].cur = Head(timers).sid

\* Every delivery of a dispatch, made or waiting in a timer, is to a
\* subscriber object that was registered when the dispatch was issued, once;
\* each identity the dispatch found is delivered to.
ScheduledAtDispatch ==
    \A p \in DOMAIN posts :
        /\ \A i \in DOMAIN Deliveries :
              Deliveries[i].post = p
                  => /\ Deliveries[i].sid \in Range(Walked(p))
                     /\ \A j \in DOMAIN Deliveries :
                           (Deliveries[j].post = p /\ Deliveries[j].sid = Deliveries[i].sid)
                               => i = j
        /\ posts[p].status = "returned"
              => \A sid \in Range(Walked(p)) : DeliveriesOf(p, Identity(sid)) # {}

\* C40: a delivery a dispatch has scheduled is not cancelled by a later
\* unsubscribe: a subscriber called from a timer that is removed with off,
\* offAll or destroy after postMessage returned and before the tick is still
\* invoked once for that dispatch, and is not invoked for a dispatch issued
\* after its removal.
C40_Scheduled == [][TimersKept]_vars /\ [][TimerInvokes]_vars /\ []ScheduledAtDispatch

\* No subscriber was called yet: the delivery of the first dispatch waits in
\* its timer, its subscriber has been removed since, and the second dispatch
\* found no subscriber and scheduled nothing.
C40_Witness ==
    /\ stack = <<>>
    /\ calls = <<>>
    /\ Len(posts) = 2
    /\ Len(timers) = 1
    /\ timers[1].post = 1
    /\ subscribers[timers[1].sid].limit = 0
    /\ messageSubscribers = <<>>
    /\ patternMessageSubscribers = <<>>
    /\ posts[2].status = "returned"
    /\ posts[2].list = <<>>
    /\ posts[2].patterns = <<>>
    /\ ret.op \in {"off", "offAll", "destroy"}

====
